---- MODULE Spec2Model ----
(***************************************************************************)
(* State-machine model of scripts/service/bin/bt_hid_ble_daemon.py: the    *)
(* BLE HID-over-GATT peripheral (attribute tree, NotifyState, HidService   *)
(* dispatch, FIFO worker, asynchronous registration with BlueZ).           *)
(*                                                                         *)
(* Two threads run: the GLib event loop (host D-Bus calls, registration    *)
(* replies and timers, one action per callback) and the FIFO worker        *)
(* thread.  The worker's code is cut into one step per access to state     *)
(* the event loop writes (the wake event, the protocol mode, a             *)
(* characteristic's notifying flag), so that every interleaving of the     *)
(* two threads at those accesses is a behaviour of the model.              *)
(***************************************************************************)
EXTENDS Integers, Sequences, FiniteSets, TLC

\* ------------------------------------------------------------------ bounds
MaxHostCalls == 3      \* logged host calls (StartNotify/StopNotify/mode writes)
MaxWriteLen == 2       \* longest WriteValue payload the host sends
MaxLines == 1          \* lines the worker reads from the FIFO
MaxErrReplies == 1     \* error replies of BlueZ in the whole-daemon runs
MaxTextLen == 3        \* longest text given to BluetoothKeyboard.send_text
MaxTailLen == 3        \* characters appended to the stem of a device name

\* First bytes the host writes: both protocol modes, a value outside them,
\* and one with bits above the 5 LED bits.
ByteVals == {0, 1, 2, 255}

\* The payloads of the host's WriteValue calls: the empty one, and every
\* first byte followed by up to MaxWriteLen - 1 further bytes
WritePayloads ==
    {<<>>} \cup {<<b>> \o [i \in 1..k |-> 1] : b \in ByteVals, k \in 0..(MaxWriteLen - 1)}

Range(s) == {s[i] : i \in 1..Len(s)}
IndexOf(s, x) == CHOOSE i \in 1..Len(s) : s[i] = x

\* --------------------------------------------------------- usage mapper
MOD_LSHIFT == 2

LowerLetters == <<"a","b","c","d","e","f","g","h","i","j","k","l","m",
                  "n","o","p","q","r","s","t","u","v","w","x","y","z">>
UpperLetters == <<"A","B","C","D","E","F","G","H","I","J","K","L","M",
                  "N","O","P","Q","R","S","T","U","V","W","X","Y","Z">>
Digits == <<"0","1","2","3","4","5","6","7","8","9">>

\* LETTER_USAGES = {chr(ord("a") + i): 0x04 + i for i in range(26)}
LETTER_USAGES == [ch \in Range(LowerLetters) |-> 4 + (IndexOf(LowerLetters, ch) - 1)]

\* DIGIT_USAGES = {str(i): 0x1E + (0 if i == 1 else i - 1 if i > 0 else 9)}
DIGIT_USAGES ==
    [ch \in Range(Digits) |->
        LET i == IndexOf(Digits, ch) - 1
        IN 30 + (IF i = 1 THEN 0 ELSE IF i > 0 THEN i - 1 ELSE 9)]

PUNCT ==
    [ch \in {" ", "\n", "\r", "\t", "-", "_"} |->
        CASE ch = " "  -> <<44, 0>>
          [] ch = "\n" -> <<40, 0>>
          [] ch = "\r" -> <<40, 0>>
          [] ch = "\t" -> <<43, 0>>
          [] ch = "-"  -> <<45, 0>>
          [] ch = "_"  -> <<45, MOD_LSHIFT>>]

\* The Danish letters are written by name: U+00E5 aring, U+00C5 Aring,
\* U+00E6 ae, U+00C6 AE, U+00F8 oslash, U+00D8 Oslash.
SPECIAL_DK ==
    [ch \in {"aring", "Aring", "ae", "AE", "oslash", "Oslash"} |->
        CASE ch = "aring"  -> <<47, 0>>
          [] ch = "Aring"  -> <<47, MOD_LSHIFT>>
          [] ch = "ae"     -> <<51, 0>>
          [] ch = "AE"     -> <<51, MOD_LSHIFT>>
          [] ch = "oslash" -> <<52, 0>>
          [] ch = "Oslash" -> <<52, MOD_LSHIFT>>]

\* Characters outside the tables: punctuation the tables lack, an accented
\* capital (U+00C9 Eacute) and U+212A KELVIN SIGN, whose str.lower() is "k".
OtherChars == {"!", "?", ".", "eacute", "Eacute", "KELVIN"}

Chars == Range(LowerLetters) \cup Range(UpperLetters) \cup Range(Digits)
            \cup DOMAIN PUNCT \cup DOMAIN SPECIAL_DK \cup OtherChars

\* str.lower() and str.isupper() of one character
str_lower(ch) ==
    CASE ch \in Range(UpperLetters) -> LowerLetters[IndexOf(UpperLetters, ch)]
      [] ch = "Aring"  -> "aring"
      [] ch = "AE"     -> "ae"
      [] ch = "Oslash" -> "oslash"
      [] ch = "Eacute" -> "eacute"
      [] ch = "KELVIN" -> "k"
      [] OTHER -> ch

str_isupper(ch) ==
    ch \in Range(UpperLetters) \cup {"Aring", "AE", "Oslash", "Eacute", "KELVIN"}

\* map_char returns (keycode, mods)
map_char(ch) ==
    IF ch \in DOMAIN PUNCT THEN PUNCT[ch]
    ELSE IF ch \in DOMAIN DIGIT_USAGES THEN <<DIGIT_USAGES[ch], 0>>
    ELSE IF ch \in DOMAIN SPECIAL_DK THEN SPECIAL_DK[ch]
    ELSE IF ch \in DOMAIN LETTER_USAGES THEN <<LETTER_USAGES[ch], 0>>
    ELSE IF str_lower(ch) \in DOMAIN LETTER_USAGES /\ str_isupper(ch)
         THEN <<LETTER_USAGES[str_lower(ch)], MOD_LSHIFT>>
    ELSE <<0, 0>>

\* ------------------------------------------------------- report builder
build_kbd_report_swapped(mods, keycode) ==
    <<mods % 256, keycode % 256, 0, 0, 0, 0, 0, 0>>

build_kbd_report_no_mods(mods, keycode) ==
    <<0, 0, keycode % 256, 0, 0, 0, 0, 0>>

build_kbd_report(mods, keycode) ==
    <<mods % 256, 0, keycode % 256, 0, 0, 0, 0, 0>>

\* ------------------------------------------------------- attribute tree
HidChrcs == <<"hid_info", "report_map", "control_point", "protocol_mode",
              "input_report", "output_report", "boot_input", "boot_output">>
DisChrcs == <<"pnp_id", "manufacturer", "model_number">>
BatteryChrcs == <<"battery_level">>

Chrcs == Range(HidChrcs) \cup Range(DisChrcs) \cup Range(BatteryChrcs)

\* The characteristics that share the NotifyState counter
ReportChrcs == {"input_report", "boot_input"}

HID_REPORT_MAP ==
    <<5, 1, 9, 6, 161, 1, 5, 7, 25, 224, 41, 231, 21, 0, 37, 1, 117, 1, 149, 8,
      129, 2, 149, 1, 117, 8, 129, 1, 149, 5, 117, 1, 5, 8, 25, 1, 41, 5, 145, 2,
      149, 1, 117, 3, 145, 1, 149, 6, 117, 8, 21, 0, 37, 101, 5, 7, 25, 0, 41,
      101, 129, 0, 192>>

InputFlags == {"read", "notify", "encrypt-read", "encrypt-notify"}
OutputFlags == {"read", "write", "write-without-response", "encrypt-read", "encrypt-write"}

\* The flags each characteristic is constructed with
flags ==
    [c \in Chrcs |->
        CASE c = "hid_info"      -> {"read"}
          [] c = "report_map"    -> {"read", "encrypt-read"}
          [] c = "control_point" -> {"write-without-response"}
          [] c = "protocol_mode" -> {"read", "write-without-response"}
          [] c = "input_report"  -> InputFlags
          [] c = "output_report" -> OutputFlags
          [] c = "boot_input"    -> InputFlags
          [] c = "boot_output"   -> OutputFlags
          [] c = "pnp_id"        -> {"read"}
          [] c = "manufacturer"  -> {"read"}
          [] c = "model_number"  -> {"read"}
          [] c = "battery_level" -> InputFlags]

\* The value each characteristic holds after construction (the Device
\* Information strings and IDs are the defaults of the environment).
InitValue ==
    [c \in Chrcs |->
        CASE c = "hid_info"      -> <<17, 1, 0, 3>>
          [] c = "report_map"    -> HID_REPORT_MAP
          [] c = "control_point" -> <<>>
          [] c = "protocol_mode" -> <<1>>
          [] c = "input_report"  -> build_kbd_report(0, 0)
          [] c = "output_report" -> <<0>>
          [] c = "boot_input"    -> build_kbd_report(0, 0)
          [] c = "boot_output"   -> <<0>>
          [] c = "pnp_id"        -> <<2, 9, 18, 1, 0, 0, 1>>
          [] c = "manufacturer"  -> <<73, 80, 82>>
          [] c = "model_number"  -> <<73, 80, 82, 32, 75, 101, 121, 98, 111, 97, 114, 100>>
          [] c = "battery_level" -> <<100>>]

ReadFlags == {"read", "encrypt-read", "encrypt-authenticated-read", "secure-read"}
WriteFlags == {"write", "write-without-response", "encrypt-write",
               "encrypt-authenticated-write", "secure-write"}
NotifyFlags == {"notify", "indicate", "encrypt-notify", "encrypt-indicate"}

has_flag(fl, options) == \E opt \in options : opt \in fl

VARIABLES
    \* attribute tree (event-loop thread)
    value,        \* Characteristic._value of every characteristic
    notifying,    \* Characteristic.notifying
    mode,         \* ProtocolModeCharacteristic.mode
    suspended,    \* HidControlPointCharacteristic.suspended
    led_mask,     \* OutputReportCharacteristic.led_mask
    reply,        \* the outcome of the last host method call
    hostCalls,    \* history: the number of counted host calls
    hostLog,      \* history: the subscription calls, in order (SpecNotify)
    \* NotifyState
    count,        \* NotifyState._count
    event,        \* NotifyState.event
    \* FIFO worker thread
    queue,        \* the deque of pending characters
    wpc,          \* the worker's position
    wRet,         \* where drain_queue returns to
    wPhase,       \* "press" or "release" call of notify_key_report
    wReport,      \* the report of the notify_key_report call
    wOrder,       \* the characteristics that call tries, in order
    wTry,         \* which of them it is at
    wResult,      \* what the call returned
    kBase,        \* history: Len(emitted) when the call began
    kHost,        \* history: hostCalls when the call began
    fifoLog,      \* history: the lines read from the FIFO
    emitted,      \* history: the PropertiesChanged notifications sent
    gap,          \* history: the count was 0 while characters were queued
    \* registration controller
    attempt,      \* state["attempt"]
    timers,       \* pending GLib sources that call do_register_gatt
    pendingGatt,  \* RegisterApplication calls awaiting their reply
    pendingAdv,   \* RegisterAdvertisement calls awaiting their reply
    registered,   \* on_adv_ok has run
    exited,       \* os._exit(1) was called
    gattCalls,    \* history: RegisterApplication calls made
    gattOks,      \* history: success replies to RegisterApplication
    advCalls,     \* history: RegisterAdvertisement calls made
    advOks,       \* history: success replies to RegisterAdvertisement
    errReplies,   \* history: error replies received
    lastExc,      \* history: the last error reply
    \* main thread
    mpc,          \* main()'s position; "loop" once main_loop.run() dispatches
    app,          \* Application.services
    exitStatus,   \* the status given to os._exit, -1 while the process runs
    \* the advertisement
    environ,      \* os.environ, as far as BT_DEVICE_NAME goes
    local_name,   \* Advertisement.local_name
    \* the calls into the functions and classes checked on their own
    fnCall,       \* the call made: the function and its arguments
    fnRet,        \* what it returned or raised, NoRet before it has run
    \* BluetoothKeyboard (ipr_keyboard/bluetooth/keyboard.py)
    helper,       \* what is at helper_path in the file system
    helperRuns,   \* history: the argv of every subprocess.run call
    \* ConfigManager (ipr_keyboard/config/manager.py)
    cfg,          \* ConfigManager._cfg, NoCfg before construction
    configJson,   \* the content of config.json
    backendFile,  \* the content of /etc/ipr-keyboard/backend
    backendWritable \* whether that file can be written

treeVars == <<value, notifying, mode, suspended, led_mask, reply>>
notifyVars == <<count, event>>
callVars == <<wPhase, wReport, wOrder, wTry, wResult, kBase, kHost>>
workerVars == <<queue, wpc, wRet, callVars, fifoLog, emitted>>
regVars == <<attempt, timers, pendingGatt, pendingAdv, registered, exited,
             gattCalls, gattOks, advCalls, advOks, errReplies, lastExc>>
hostVars == <<hostCalls, hostLog>>
mainVars == <<mpc, app, exitStatus>>
advVars == <<environ, local_name>>
libVars == <<fnCall, fnRet, helper, helperRuns, cfg, configJson, backendFile,
             backendWritable>>
daemonVars == <<treeVars, hostVars, notifyVars, workerVars, gap, regVars, mainVars>>
vars == <<daemonVars, advVars, libVars>>


\* ------------------------------------------------------------ NotifyState
Max0(a, b) == IF a >= b THEN a ELSE b

\* NotifyState.acquire, under the lock
NotifyState_acquire ==
    /\ count' = count + 1
    /\ event' = TRUE

NotifyState_release_unfloored ==
    /\ count' = count - 1
    /\ event' = IF count' = 0 THEN FALSE ELSE event

NotifyState_release_keep_event ==
    /\ count' = Max0(0, count - 1)
    /\ event' = event

\* NotifyState.release, under the lock
NotifyState_release ==
    /\ count' = Max0(0, count - 1)
    /\ event' = IF count' = 0 THEN FALSE ELSE event

\* --------------------------------------------- host calls (event loop)
NoReply == [op |-> "none", chrc |-> "none", arg |-> <<>>, status |-> "none", ret |-> <<>>]
Ok(op, c, v, r) == [op |-> op, chrc |-> c, arg |-> v, status |-> "ok", ret |-> r]
Raise(op, c, v, e) == [op |-> op, chrc |-> c, arg |-> v, status |-> e, ret |-> <<>>]

\* A counted host call: at most MaxHostCalls of them are made
Counted ==
    /\ hostCalls < MaxHostCalls
    /\ hostCalls' = hostCalls + 1

\* The call is appended to the history of subscription calls
Log(op, c) == hostLog' = Append(hostLog, [op |-> op, chrc |-> c])

Characteristic_ReadValue_unchecked(c) ==
    reply' = Ok("ReadValue", c, <<>>, value[c])

\* Characteristic.ReadValue (no subclass overrides it)
Characteristic_ReadValue(c) ==
    IF ~has_flag(flags[c], ReadFlags)
    THEN reply' = Raise("ReadValue", c, <<>>, "NotPermitted")
    ELSE reply' = Ok("ReadValue", c, <<>>, value[c])

Characteristic_WriteValue_unchecked(c, v) ==
    /\ value' = [value EXCEPT ![c] = v]
    /\ reply' = Ok("WriteValue", c, v, <<>>)
    /\ UNCHANGED <<mode, suspended, led_mask>>

\* Characteristic.WriteValue
Characteristic_WriteValue(c, v) ==
    IF ~has_flag(flags[c], WriteFlags)
    THEN /\ reply' = Raise("WriteValue", c, v, "NotPermitted")
         /\ UNCHANGED <<value, mode, suspended, led_mask>>
    ELSE /\ value' = [value EXCEPT ![c] = v]
         /\ reply' = Ok("WriteValue", c, v, <<>>)
         /\ UNCHANGED <<mode, suspended, led_mask>>

ProtocolModeCharacteristic_WriteValue_stale_value(v) ==
    IF Len(v) # 1
    THEN /\ reply' = Raise("WriteValue", "protocol_mode", v, "InvalidArgs")
         /\ UNCHANGED <<value, mode, suspended, led_mask>>
    ELSE IF v[1] \notin {0, 1}
    THEN /\ reply' = Raise("WriteValue", "protocol_mode", v, "InvalidArgs")
         /\ UNCHANGED <<value, mode, suspended, led_mask>>
    ELSE /\ mode' = v[1]
         /\ reply' = Ok("WriteValue", "protocol_mode", v, <<>>)
         /\ UNCHANGED <<value, suspended, led_mask>>

ProtocolModeCharacteristic_WriteValue_unvalidated(v) ==
    IF Len(v) # 1
    THEN /\ reply' = Raise("WriteValue", "protocol_mode", v, "InvalidArgs")
         /\ UNCHANGED <<value, mode, suspended, led_mask>>
    ELSE /\ mode' = v[1]
         /\ value' = [value EXCEPT !["protocol_mode"] = <<v[1]>>]
         /\ reply' = Ok("WriteValue", "protocol_mode", v, <<>>)
         /\ UNCHANGED <<suspended, led_mask>>

\* ProtocolModeCharacteristic.WriteValue
ProtocolModeCharacteristic_WriteValue(v) ==
    IF Len(v) # 1
    THEN /\ reply' = Raise("WriteValue", "protocol_mode", v, "InvalidArgs")
         /\ UNCHANGED <<value, mode, suspended, led_mask>>
    ELSE IF v[1] \notin {0, 1}
    THEN /\ reply' = Raise("WriteValue", "protocol_mode", v, "InvalidArgs")
         /\ UNCHANGED <<value, mode, suspended, led_mask>>
    ELSE /\ mode' = v[1]
         /\ value' = [value EXCEPT !["protocol_mode"] = <<v[1]>>]
         /\ reply' = Ok("WriteValue", "protocol_mode", v, <<>>)
         /\ UNCHANGED <<suspended, led_mask>>

\* HidControlPointCharacteristic.WriteValue
HidControlPointCharacteristic_WriteValue(v) ==
    IF Len(v) # 1
    THEN /\ reply' = Raise("WriteValue", "control_point", v, "InvalidArgs")
         /\ UNCHANGED <<value, mode, suspended, led_mask>>
    ELSE /\ suspended' = (v[1] = 0)
         /\ reply' = Ok("WriteValue", "control_point", v, <<>>)
         /\ UNCHANGED <<value, mode, led_mask>>

OutputReportCharacteristic_WriteValue_unmasked(v) ==
    IF Len(v) < 1
    THEN /\ reply' = Raise("WriteValue", "output_report", v, "InvalidArgs")
         /\ UNCHANGED <<value, mode, suspended, led_mask>>
    ELSE /\ led_mask' = v[1]
         /\ value' = [value EXCEPT !["output_report"] = <<v[1]>>]
         /\ reply' = Ok("WriteValue", "output_report", v, <<>>)
         /\ UNCHANGED <<mode, suspended>>

\* OutputReportCharacteristic.WriteValue
OutputReportCharacteristic_WriteValue(v) ==
    IF Len(v) < 1
    THEN /\ reply' = Raise("WriteValue", "output_report", v, "InvalidArgs")
         /\ UNCHANGED <<value, mode, suspended, led_mask>>
    ELSE /\ led_mask' = v[1] % 32
         /\ value' = [value EXCEPT !["output_report"] = <<v[1] % 32>>]
         /\ reply' = Ok("WriteValue", "output_report", v, <<>>)
         /\ UNCHANGED <<mode, suspended>>

\* BootKeyboardOutputCharacteristic.WriteValue
BootKeyboardOutputCharacteristic_WriteValue(v) ==
    IF Len(v) < 1
    THEN /\ reply' = Raise("WriteValue", "boot_output", v, "InvalidArgs")
         /\ UNCHANGED <<value, mode, suspended, led_mask>>
    ELSE /\ value' = [value EXCEPT !["boot_output"] = <<v[1] % 32>>]
         /\ reply' = Ok("WriteValue", "boot_output", v, <<>>)
         /\ UNCHANGED <<mode, suspended, led_mask>>

\* The WriteValue method the class of characteristic c binds
WriteValueOf(c, v) ==
    CASE c = "protocol_mode" -> ProtocolModeCharacteristic_WriteValue(v)
      [] c = "control_point" -> HidControlPointCharacteristic_WriteValue(v)
      [] c = "output_report" -> OutputReportCharacteristic_WriteValue(v)
      [] c = "boot_output"   -> BootKeyboardOutputCharacteristic_WriteValue(v)
      [] OTHER               -> Characteristic_WriteValue(c, v)

Characteristic_StartNotify_unchecked(c) ==
    /\ notifying' = [notifying EXCEPT ![c] = TRUE]
    /\ reply' = Ok("StartNotify", c, <<>>, <<>>)
    /\ UNCHANGED <<count, event>>

\* Characteristic.StartNotify
Characteristic_StartNotify(c) ==
    IF ~has_flag(flags[c], NotifyFlags)
    THEN /\ reply' = Raise("StartNotify", c, <<>>, "NotPermitted")
         /\ UNCHANGED <<notifying, count, event>>
    ELSE /\ notifying' = [notifying EXCEPT ![c] = TRUE]
         /\ reply' = Ok("StartNotify", c, <<>>, <<>>)
         /\ UNCHANGED <<count, event>>

\* Characteristic.StopNotify
Characteristic_StopNotify(c) ==
    /\ notifying' = [notifying EXCEPT ![c] = FALSE]
    /\ reply' = Ok("StopNotify", c, <<>>, <<>>)
    /\ UNCHANGED <<count, event>>

\* InputReportCharacteristic.StartNotify, BootKeyboardInputCharacteristic.StartNotify
InputCharacteristic_StartNotify(c) ==
    /\ notifying' = [notifying EXCEPT ![c] = TRUE]
    /\ NotifyState_acquire
    /\ reply' = Ok("StartNotify", c, <<>>, <<>>)

\* InputReportCharacteristic.StopNotify, BootKeyboardInputCharacteristic.StopNotify
InputCharacteristic_StopNotify(c) ==
    /\ notifying' = [notifying EXCEPT ![c] = FALSE]
    /\ NotifyState_release
    /\ reply' = Ok("StopNotify", c, <<>>, <<>>)

\* The host calls ReadValue on characteristic c
ReadValue(c) ==
    /\ ~exited
    /\ Characteristic_ReadValue(c)
    /\ UNCHANGED <<value, notifying, mode, suspended, led_mask, hostVars,
                   notifyVars, workerVars, gap, regVars, mainVars,
                   advVars, libVars>>

\* The host calls WriteValue(v) on characteristic c
WriteValue(c, v) ==
    /\ ~exited
    /\ WriteValueOf(c, v)
    /\ UNCHANGED <<notifying, hostVars, notifyVars, workerVars, gap, regVars, mainVars,
                   advVars, libVars>>

\* The host writes the Protocol Mode characteristic (a counted call)
WriteProtocolMode(v) ==
    /\ ~exited
    /\ Counted
    /\ WriteValueOf("protocol_mode", v)
    /\ UNCHANGED <<notifying, hostLog, notifyVars, workerVars, gap, regVars, mainVars,
                   advVars, libVars>>

\* The host writes the HID Control Point characteristic (a counted call):
\* 0x00 is Suspend, 0x01 is Exit Suspend
WriteControlPoint(v) ==
    /\ ~exited
    /\ Counted
    /\ WriteValueOf("control_point", v)
    /\ UNCHANGED <<notifying, hostLog, notifyVars, workerVars, gap, regVars, mainVars,
                   advVars, libVars>>

\* The host calls StartNotify on characteristic c
StartNotify(c) ==
    /\ ~exited
    /\ Counted
    /\ IF c \in ReportChrcs THEN InputCharacteristic_StartNotify(c)
                            ELSE Characteristic_StartNotify(c)
    /\ UNCHANGED <<value, mode, suspended, led_mask, workerVars, gap, regVars, mainVars,
                   advVars, libVars>>

\* The host calls StopNotify on characteristic c
StopNotify(c) ==
    /\ ~exited
    /\ Counted
    /\ IF c \in ReportChrcs THEN InputCharacteristic_StopNotify(c)
                            ELSE Characteristic_StopNotify(c)
    /\ gap' = (gap \/ (queue # <<>> /\ count' = 0))
    /\ UNCHANGED <<value, mode, suspended, led_mask, workerVars, regVars, mainVars,
                   advVars, libVars>>


\* The same calls with the history of subscription calls kept, and without
LoggedStartNotify(c) == StartNotify(c) /\ Log("StartNotify", c)
LoggedStopNotify(c) == StopNotify(c) /\ Log("StopNotify", c)
HostStartNotify(c) == StartNotify(c) /\ UNCHANGED hostLog
HostStopNotify(c) == StopNotify(c) /\ UNCHANGED hostLog

\* ------------------------------------------------------------ FIFO worker
\* The lines a writer puts into the FIFO, as "for line in fifo" yields them
Lines == { <<"a", "\n">>, <<"A", "\n">>, <<"H", "i", "!", "\n">> }

\* line.rstrip("\n")
RECURSIVE rstrip_newline(_)
rstrip_newline(line) ==
    IF line # <<>> /\ line[Len(line)] = "\n"
    THEN rstrip_newline(SubSeq(line, 1, Len(line) - 1))
    ELSE line

\* fifo_worker, lines 816-820: drain what is pending before opening the FIFO
fifo_worker_top ==
    /\ ~exited
    /\ wpc = "top"
    /\ IF queue # <<>>
       THEN IF event
            THEN wpc' = "drain" /\ wRet' = "top"
            ELSE UNCHANGED <<wpc, wRet>>          \* time.sleep(0.05)
       ELSE wpc' = "open" /\ UNCHANGED wRet
    /\ UNCHANGED <<treeVars, hostVars, notifyVars, queue, callVars, fifoLog,
                   emitted, gap, regVars, mainVars,
                   advVars, libVars>>

\* fifo_worker, line 822: open() returns once a writer has the FIFO open, or raises
fifo_worker_open ==
    /\ ~exited
    /\ wpc = "open"
    /\ \E ok \in BOOLEAN : wpc' = IF ok THEN "read" ELSE "err"
    /\ UNCHANGED <<treeVars, hostVars, notifyVars, queue, wRet, callVars,
                   fifoLog, emitted, gap, regVars, mainVars,
                   advVars, libVars>>

\* fifo_worker, lines 823-826: the next line is read and its characters queued
fifo_worker_line(line) ==
    /\ ~exited
    /\ wpc = "read"
    /\ Len(fifoLog) < MaxLines
    /\ fifoLog' = Append(fifoLog, line)
    /\ queue' = queue \o rstrip_newline(line)
    /\ gap' = (gap \/ (queue' # <<>> /\ count = 0))
    /\ wpc' = "line"
    /\ UNCHANGED <<treeVars, hostVars, notifyVars, wRet, callVars, emitted, regVars, mainVars,
                   advVars, libVars>>

\* fifo_worker, line 823: the writer closed the FIFO (the for loop ends), or
\* the read raises
fifo_worker_eof ==
    /\ ~exited
    /\ wpc = "read"
    /\ \E ok \in BOOLEAN : wpc' = IF ok THEN "top" ELSE "err"
    /\ UNCHANGED <<treeVars, hostVars, notifyVars, queue, wRet, callVars,
                   fifoLog, emitted, gap, regVars, mainVars,
                   advVars, libVars>>

\* fifo_worker, lines 827-828: drain after a line, if the event is set
fifo_worker_after_line ==
    /\ ~exited
    /\ wpc = "line"
    /\ IF event
       THEN wpc' = "drain" /\ wRet' = "read"
       ELSE wpc' = "read" /\ UNCHANGED wRet
    /\ UNCHANGED <<treeVars, hostVars, notifyVars, queue, callVars, fifoLog,
                   emitted, gap, regVars, mainVars,
                   advVars, libVars>>

fifo_worker_except_clear ==
    /\ ~exited
    /\ wpc = "err"
    /\ wpc' = "top"
    /\ queue' = <<>>
    /\ UNCHANGED <<treeVars, hostVars, notifyVars, wRet, callVars, fifoLog,
                   emitted, gap, regVars, mainVars,
                   advVars, libVars>>

\* fifo_worker, lines 829-831: log, time.sleep(1), back to the top of the loop
fifo_worker_except ==
    /\ ~exited
    /\ wpc = "err"
    /\ wpc' = "top"
    /\ UNCHANGED <<treeVars, hostVars, notifyVars, queue, wRet, callVars,
                   fifoLog, emitted, gap, regVars, mainVars,
                   advVars, libVars>>

drain_queue_clear_event ==
    /\ ~exited
    /\ wpc = "drain"
    /\ wpc' = IF queue = <<>> THEN wRet ELSE "send"
    /\ event' = IF queue = <<>> THEN FALSE ELSE event
    /\ UNCHANGED <<treeVars, hostVars, count, queue, wRet, callVars,
                   fifoLog, emitted, gap, regVars, mainVars,
                   advVars, libVars>>

\* drain_queue: while queue: if not send_next_character(...): break
drain_queue ==
    /\ ~exited
    /\ wpc = "drain"
    /\ wpc' = IF queue = <<>> THEN wRet ELSE "send"
    /\ UNCHANGED <<treeVars, hostVars, notifyVars, queue, wRet, callVars,
                   fifoLog, emitted, gap, regVars, mainVars,
                   advVars, libVars>>

send_next_character_suspend_gated ==
    /\ ~exited
    /\ wpc = "send"
    /\ IF queue = <<>>
       THEN wpc' = wRet /\ UNCHANGED <<queue, wPhase, wReport>>
       ELSE IF ~event \/ suspended
       THEN wpc' = wRet /\ UNCHANGED <<queue, wPhase, wReport>>
       ELSE LET keycode == map_char(Head(queue))[1]
                mods == map_char(Head(queue))[2]
            IN IF keycode = 0
               THEN /\ queue' = Tail(queue)
                    /\ wpc' = "drain"
                    /\ UNCHANGED <<wPhase, wReport>>
               ELSE /\ wReport' = build_kbd_report(mods, keycode)
                    /\ wPhase' = "press"
                    /\ wpc' = "k_entry"
                    /\ UNCHANGED queue
    /\ UNCHANGED <<treeVars, hostVars, notifyVars, wRet, wOrder, wTry, wResult,
                   kBase, kHost, fifoLog, emitted, gap, regVars, mainVars,
                   advVars, libVars>>

send_next_character_ungated ==
    /\ ~exited
    /\ wpc = "send"
    /\ IF queue = <<>>
       THEN wpc' = wRet /\ UNCHANGED <<queue, wPhase, wReport>>
       ELSE LET keycode == map_char(Head(queue))[1]
                mods == map_char(Head(queue))[2]
            IN IF keycode = 0
               THEN /\ queue' = Tail(queue)
                    /\ wpc' = "drain"
                    /\ UNCHANGED <<wPhase, wReport>>
               ELSE /\ wReport' = build_kbd_report(mods, keycode)
                    /\ wPhase' = "press"
                    /\ wpc' = "k_entry"
                    /\ UNCHANGED queue
    /\ UNCHANGED <<treeVars, hostVars, notifyVars, wRet, wOrder, wTry, wResult,
                   kBase, kHost, fifoLog, emitted, gap, regVars, mainVars,
                   advVars, libVars>>

\* send_next_character, lines 775-789: the two early returns, the mapping,
\* the drop of an unmapped character, the key-down report
send_next_character ==
    /\ ~exited
    /\ wpc = "send"
    /\ IF queue = <<>>
       THEN wpc' = wRet /\ UNCHANGED <<queue, wPhase, wReport>>
       ELSE IF ~event
       THEN wpc' = wRet /\ UNCHANGED <<queue, wPhase, wReport>>
       ELSE LET keycode == map_char(Head(queue))[1]
                mods == map_char(Head(queue))[2]
            IN IF keycode = 0
               THEN /\ queue' = Tail(queue)
                    /\ wpc' = "drain"
                    /\ UNCHANGED <<wPhase, wReport>>
               ELSE /\ wReport' = build_kbd_report(mods, keycode)
                    /\ wPhase' = "press"
                    /\ wpc' = "k_entry"
                    /\ UNCHANGED queue
    /\ UNCHANGED <<treeVars, hostVars, notifyVars, wRet, wOrder, wTry, wResult,
                   kBase, kHost, fifoLog, emitted, gap, regVars, mainVars,
                   advVars, libVars>>

notify_key_report_report_first ==
    /\ ~exited
    /\ wpc = "k_entry"
    /\ wOrder' = <<"input_report", "boot_input">>
    /\ wTry' = 1
    /\ kBase' = Len(emitted)
    /\ kHost' = hostCalls
    /\ wpc' = "k_chk"
    /\ UNCHANGED <<treeVars, hostVars, notifyVars, queue, wRet, wPhase, wReport,
                   wResult, fifoLog, emitted, gap, regVars, mainVars,
                   advVars, libVars>>

\* HidService.notify_key_report, line 625: the protocol mode picks the order
notify_key_report ==
    /\ ~exited
    /\ wpc = "k_entry"
    /\ wOrder' = IF mode = 0 THEN <<"boot_input", "input_report">>
                             ELSE <<"input_report", "boot_input">>
    /\ wTry' = 1
    /\ kBase' = Len(emitted)
    /\ kHost' = hostCalls
    /\ wpc' = "k_chk"
    /\ UNCHANGED <<treeVars, hostVars, notifyVars, queue, wRet, wPhase, wReport,
                   wResult, fifoLog, emitted, gap, regVars, mainVars,
                   advVars, libVars>>

\* notify_report, lines 477-478 and 542-543: "if not self.notifying: return
\* False", and the "or" of notify_key_report going on to the other one
notify_report_check ==
    /\ ~exited
    /\ wpc = "k_chk"
    /\ IF notifying[wOrder[wTry]]
       THEN wpc' = "k_emit" /\ UNCHANGED <<wTry, wResult>>
       ELSE IF wTry = 1
       THEN wTry' = 2 /\ UNCHANGED <<wpc, wResult>>
       ELSE wResult' = FALSE /\ wpc' = "k_ret" /\ UNCHANGED wTry
    /\ UNCHANGED <<treeVars, hostVars, notifyVars, queue, wRet, wPhase, wReport,
                   wOrder, kBase, kHost, fifoLog, emitted, gap, regVars, mainVars,
                   advVars, libVars>>

\* notify_report, lines 479-485 and 544-550: store the report, emit
\* PropertiesChanged, return True
notify_report_emit ==
    /\ ~exited
    /\ wpc = "k_emit"
    /\ value' = [value EXCEPT ![wOrder[wTry]] = wReport]
    /\ emitted' = Append(emitted, [chrc |-> wOrder[wTry], report |-> wReport])
    /\ wResult' = TRUE
    /\ wpc' = "k_ret"
    /\ UNCHANGED <<notifying, mode, suspended, led_mask, reply, hostVars,
                   notifyVars, queue, wRet, wPhase, wReport, wOrder, wTry,
                   kBase, kHost, fifoLog, gap, regVars, mainVars,
                   advVars, libVars>>

send_next_character_resume_pop_tail ==
    /\ ~exited
    /\ wpc = "k_ret"
    /\ IF wPhase = "press"
       THEN IF ~wResult
            THEN wpc' = wRet /\ UNCHANGED <<queue, wPhase, wReport>>
            ELSE /\ wPhase' = "release"
                 /\ wReport' = build_kbd_report(0, 0)
                 /\ wpc' = "k_entry"
                 /\ UNCHANGED queue
       ELSE /\ queue' = SubSeq(queue, 1, Len(queue) - 1)
            /\ wpc' = "drain"
            /\ UNCHANGED <<wPhase, wReport>>
    /\ UNCHANGED <<treeVars, hostVars, notifyVars, wRet, wOrder, wTry, wResult,
                   kBase, kHost, fifoLog, emitted, gap, regVars, mainVars,
                   advVars, libVars>>

\* send_next_character, lines 792-800: after the key-down call, return False
\* or sleep 12 ms and send the neutral report; after that call, sleep 8 ms,
\* popleft and return True
send_next_character_resume ==
    /\ ~exited
    /\ wpc = "k_ret"
    /\ IF wPhase = "press"
       THEN IF ~wResult
            THEN wpc' = wRet /\ UNCHANGED <<queue, wPhase, wReport>>
            ELSE /\ wPhase' = "release"
                 /\ wReport' = build_kbd_report(0, 0)
                 /\ wpc' = "k_entry"
                 /\ UNCHANGED queue
       ELSE /\ queue' = Tail(queue)
            /\ wpc' = "drain"
            /\ UNCHANGED <<wPhase, wReport>>
    /\ UNCHANGED <<treeVars, hostVars, notifyVars, wRet, wOrder, wTry, wResult,
                   kBase, kHost, fifoLog, emitted, gap, regVars, mainVars,
                   advVars, libVars>>


\* ------------------------------------------------ registration controller
MaxAttempts == 60      \* state["max_attempts"]

\* Strings are sequences of characters, so that "token in name" is a search
Contains(tok, str) ==
    \E i \in 1..(Len(str) - Len(tok) + 1) : SubSeq(str, i, i + Len(tok) - 1) = tok

RetryTokens ==
    { <<"N","o","t","R","e","a","d","y">>,
      <<"I","n","P","r","o","g","r","e","s","s">>,
      <<"F","a","i","l","e","d">>,
      <<"N","o","R","e","p","l","y">>,
      <<"T","i","m","e","d","O","u","t">> }

\* Error replies of BlueZ: the D-Bus error name and str(exc)
DBusErrors ==
    { [name |-> <<"o","r","g",".","b","l","u","e","z",".","E","r","r","o","r",".","N","o","t","R","e","a","d","y">>,
       msg |-> <<"o","r","g",".","b","l","u","e","z",".","E","r","r","o","r",".","N","o","t","R","e","a","d","y",":"," ","R","e","s","o","u","r","c","e"," ","N","o","t"," ","R","e","a","d","y">>],
      [name |-> <<"o","r","g",".","b","l","u","e","z",".","E","r","r","o","r",".","A","l","r","e","a","d","y","E","x","i","s","t","s">>,
       msg |-> <<"o","r","g",".","b","l","u","e","z",".","E","r","r","o","r",".","A","l","r","e","a","d","y","E","x","i","s","t","s",":"," ","A","l","r","e","a","d","y"," ","E","x","i","s","t","s">>],
      [name |-> <<"o","r","g",".","f","r","e","e","d","e","s","k","t","o","p",".","D","B","u","s",".","E","r","r","o","r",".","N","o","R","e","p","l","y">>,
       msg |-> <<"o","r","g",".","f","r","e","e","d","e","s","k","t","o","p",".","D","B","u","s",".","E","r","r","o","r",".","N","o","R","e","p","l","y",":"," ","D","i","d"," ","n","o","t"," ","r","e","c","e","i","v","e"," ","a"," ","r","e","p","l","y">>],
      [name |-> <<"o","r","g",".","b","l","u","e","z",".","E","r","r","o","r",".","N","o","t","P","e","r","m","i","t","t","e","d">>,
       msg |-> <<"o","r","g",".","b","l","u","e","z",".","E","r","r","o","r",".","N","o","t","P","e","r","m","i","t","t","e","d",":"," ","M","a","x"," ","a","d","v","e","r","t","i","s","e","m","e","n","t","s"," ","r","e","a","c","h","e","d">>],
      [name |-> <<"o","r","g",".","f","r","e","e","d","e","s","k","t","o","p",".","D","B","u","s",".","E","r","r","o","r",".","U","n","k","n","o","w","n","M","e","t","h","o","d">>,
       msg |-> <<"o","r","g",".","f","r","e","e","d","e","s","k","t","o","p",".","D","B","u","s",".","E","r","r","o","r",".","U","n","k","n","o","w","n","M","e","t","h","o","d",":"," ","O","p","e","r","a","t","i","o","n"," ","F","a","i","l","e","d">>] }

NoExc == [name |-> <<>>, msg |-> <<>>]

retryable_dbus_error_name_only(exc) ==
    \E token \in RetryTokens : Contains(token, exc.name)

\* _retryable_dbus_error
retryable_dbus_error(exc) ==
    \E token \in RetryTokens : Contains(token, exc.name) \/ Contains(token, exc.msg)

fail_and_exit_rearm ==
    /\ exited' = TRUE
    /\ exitStatus' = 1
    /\ timers' = timers + 1

\* fail_and_exit: main_loop.quit(); os._exit(1)
fail_and_exit ==
    /\ exited' = TRUE
    /\ exitStatus' = 1
    /\ UNCHANGED timers

schedule_retry_count_retryable_only(exc) ==
    IF ~retryable_dbus_error(exc)
    THEN attempt' = attempt /\ fail_and_exit
    ELSE /\ attempt' = attempt + 1
         /\ IF attempt' >= MaxAttempts
            THEN fail_and_exit
            ELSE /\ timers' = timers + 1
                 /\ UNCHANGED <<exited, exitStatus,
                   advVars, libVars>>

schedule_retry_over_budget(exc) ==
    /\ attempt' = attempt + 1
    /\ IF ~retryable_dbus_error(exc)
       THEN fail_and_exit
       ELSE IF attempt' > MaxAttempts
       THEN fail_and_exit
       ELSE /\ timers' = timers + 1
            /\ UNCHANGED <<exited, exitStatus>>

\* schedule_retry(source, exc)
schedule_retry(exc) ==
    /\ attempt' = attempt + 1
    /\ IF ~retryable_dbus_error(exc)
       THEN fail_and_exit
       ELSE IF attempt' >= MaxAttempts
       THEN fail_and_exit
       ELSE /\ timers' = timers + 1      \* GLib.timeout_add_seconds(1, do_register_gatt)
            /\ UNCHANGED <<exited, exitStatus,
                   advVars, libVars>>

do_register_gatt_with_adv ==
    /\ ~exited
    /\ mpc = "loop"
    /\ timers > 0
    /\ timers' = timers - 1
    /\ pendingGatt' = pendingGatt + 1
    /\ gattCalls' = gattCalls + 1
    /\ pendingAdv' = pendingAdv + 1
    /\ advCalls' = advCalls + 1
    /\ UNCHANGED <<treeVars, hostVars, notifyVars, workerVars, gap, mainVars, attempt,
                   registered, exited, gattOks, advOks, errReplies, lastExc,
                   advVars, libVars>>

do_register_gatt_repeating ==
    /\ ~exited
    /\ mpc = "loop"
    /\ timers > 0
    /\ pendingGatt' = pendingGatt + 1
    /\ gattCalls' = gattCalls + 1
    /\ UNCHANGED <<treeVars, hostVars, notifyVars, workerVars, gap, mainVars, attempt,
                   timers, pendingAdv, registered, exited, gattOks, advCalls,
                   advOks, errReplies, lastExc, advVars, libVars>>

\* do_register_gatt, run by the idle source or by a retry timer, which the
\* running main loop dispatches: the asynchronous RegisterApplication call is
\* sent, the source is removed
do_register_gatt ==
    /\ ~exited
    /\ mpc = "loop"
    /\ timers > 0
    /\ timers' = timers - 1
    /\ pendingGatt' = pendingGatt + 1
    /\ gattCalls' = gattCalls + 1
    /\ UNCHANGED <<treeVars, hostVars, notifyVars, workerVars, gap, mainVars, attempt,
                   pendingAdv, registered, exited, gattOks, advCalls, advOks,
                   errReplies, lastExc,
                   advVars, libVars>>

\* on_gatt_ok: the success reply; RegisterAdvertisement is sent
on_gatt_ok ==
    /\ ~exited
    /\ pendingGatt > 0
    /\ pendingGatt' = pendingGatt - 1
    /\ gattOks' = gattOks + 1
    /\ pendingAdv' = pendingAdv + 1
    /\ advCalls' = advCalls + 1
    /\ UNCHANGED <<treeVars, hostVars, notifyVars, workerVars, gap, mainVars, attempt,
                   timers, registered, exited, gattCalls, advOks, errReplies,
                   lastExc,
                   advVars, libVars>>

\* on_gatt_err(exc): the error reply to RegisterApplication
on_gatt_err(exc) ==
    /\ ~exited
    /\ pendingGatt > 0
    /\ pendingGatt' = pendingGatt - 1
    /\ errReplies' = errReplies + 1
    /\ lastExc' = exc
    /\ schedule_retry(exc)
    /\ UNCHANGED <<treeVars, hostVars, notifyVars, workerVars, gap, mpc, app, pendingAdv,
                   registered, gattCalls, gattOks, advCalls, advOks,
                   advVars, libVars>>

\* on_adv_ok: the success reply to RegisterAdvertisement
on_adv_ok ==
    /\ ~exited
    /\ pendingAdv > 0
    /\ pendingAdv' = pendingAdv - 1
    /\ advOks' = advOks + 1
    /\ registered' = TRUE
    /\ UNCHANGED <<treeVars, hostVars, notifyVars, workerVars, gap, mainVars, attempt,
                   timers, pendingGatt, exited, gattCalls, gattOks, advCalls,
                   errReplies, lastExc,
                   advVars, libVars>>

\* on_adv_err(exc): the error reply to RegisterAdvertisement
on_adv_err(exc) ==
    /\ ~exited
    /\ pendingAdv > 0
    /\ pendingAdv' = pendingAdv - 1
    /\ errReplies' = errReplies + 1
    /\ lastExc' = exc
    /\ schedule_retry(exc)
    /\ UNCHANGED <<treeVars, hostVars, notifyVars, workerVars, gap, mpc, app, pendingGatt,
                   registered, gattCalls, gattOks, advCalls, advOks,
                   advVars, libVars>>

\* Advertisement.Release, called by BlueZ when it drops the advertisement
\* it had accepted: the method logs and returns
Advertisement_Release ==
    /\ ~exited
    /\ advOks > 0
    /\ reply' = Ok("Release", "advertisement", <<>>, <<>>)
    /\ UNCHANGED <<value, notifying, mode, suspended, led_mask, hostVars,
                   notifyVars, workerVars, gap, regVars, mainVars,
                   advVars, libVars>>

\* ------------------------------------------------------ the advertisement
\* os.environ without BT_DEVICE_NAME, and with it
Unset == <<>>
Environ(name) == [BT_DEVICE_NAME |-> name]

\* main, line 932: the default of BT_DEVICE_NAME, "IPR Keyboard"
DefaultDeviceName == <<"I", "P", "R", " ", "K", "e", "y", "b", "o", "a", "r", "d">>

\* The characters str.strip() and str.rstrip() remove
Whitespace == {" ", "\t"}

RECURSIVE str_lstrip(_)
str_lstrip(v) ==
    IF v # <<>> /\ v[1] \in Whitespace THEN str_lstrip(Tail(v)) ELSE v

RECURSIVE str_rstrip(_)
str_rstrip(v) ==
    IF v # <<>> /\ v[Len(v)] \in Whitespace
    THEN str_rstrip(SubSeq(v, 1, Len(v) - 1))
    ELSE v

str_strip(v) == str_rstrip(str_lstrip(v))

\* env_str: the variable or the default, stripped, cut at the first " #"
env_str(name, default) ==
    LET v == str_strip(IF name \in DOMAIN environ THEN environ[name] ELSE default)
        cuts == {i \in 1..(Len(v) - 1) : v[i] = " " /\ v[i + 1] = "#"}
    IN  IF cuts = {}
        THEN v
        ELSE str_rstrip(SubSeq(v, 1, (CHOOSE i \in cuts : \A j \in cuts : i <= j) - 1))

\* Advertisement.get_properties
Advertisement_get_properties ==
    [Type |-> "peripheral",
     ServiceUUIDs |-> <<"1812">>,
     LocalName |-> local_name,
     Appearance |-> 961]

\* The interfaces a GetAll call names
Interfaces == {"org.bluez.LEAdvertisement1", "org.bluez.GattService1"}

\* Advertisement.GetAll(interface), called by BlueZ or any peer of the bus
Advertisement_GetAll(interface) ==
    /\ ~exited
    /\ mpc = "loop"
    /\ reply' = IF interface # "org.bluez.LEAdvertisement1"
                THEN Raise("GetAll", "advertisement", <<interface>>, "InvalidArgs")
                ELSE Ok("GetAll", "advertisement", <<interface>>,
                        Advertisement_get_properties)
    /\ UNCHANGED <<value, notifying, mode, suspended, led_mask, hostVars,
                   notifyVars, workerVars, gap, regVars, mainVars, advVars,
                   libVars>>

\* ------------------------------------------------------- the object tree
\* Service.characteristics of each service, in the order they are added
characteristics ==
    [s \in {"hid", "dis", "battery"} |->
        CASE s = "hid"     -> HidChrcs
          [] s = "dis"     -> DisChrcs
          [] s = "battery" -> BatteryChrcs]

\* Characteristic.descriptors: the Report Reference of the two Report
\* characteristics
descriptors ==
    [c \in Chrcs |->
        IF c \in {"input_report", "output_report"}
        THEN <<"report_reference">>
        ELSE <<>>]

\* The index main() constructs each service with
Service_index(s) == CASE s = "hid" -> 0 [] s = "dis" -> 1 [] s = "battery" -> 2

\* Service.path, Characteristic.path and Descriptor.path, as their
\* components below /org/bluez/ipr
Service_path(s) == <<"service", Service_index(s)>>
Characteristic_path(s, i) == Service_path(s) \o <<"char", i - 1>>
Descriptor_path(s, i, k) == Characteristic_path(s, i) \o <<"desc", k - 1>>

\* The UUID each service and characteristic is constructed with
Service_uuid(s) == CASE s = "hid" -> "1812" [] s = "dis" -> "180a" [] s = "battery" -> "180f"
uuid ==
    [c \in Chrcs |->
        CASE c = "hid_info"      -> "2a4a"
          [] c = "report_map"    -> "2a4b"
          [] c = "control_point" -> "2a4c"
          [] c = "protocol_mode" -> "2a4e"
          [] c = "input_report"  -> "2a4d"
          [] c = "output_report" -> "2a4d"
          [] c = "boot_input"    -> "2a22"
          [] c = "boot_output"   -> "2a32"
          [] c = "pnp_id"        -> "2a50"
          [] c = "manufacturer"  -> "2a29"
          [] c = "model_number"  -> "2a24"
          [] c = "battery_level" -> "2a19"]

\* Service.get_properties
Service_get_properties(s) ==
    [iface |-> "org.bluez.GattService1", UUID |-> Service_uuid(s), Primary |-> TRUE]

\* Characteristic.get_properties
Characteristic_get_properties(s, i) ==
    [iface |-> "org.bluez.GattCharacteristic1",
     Service |-> Service_path(s),
     UUID |-> uuid[characteristics[s][i]],
     Flags |-> flags[characteristics[s][i]],
     Value |-> value[characteristics[s][i]]]

\* Descriptor.get_properties: the Report Reference holds the report id 1
\* and the report type, 1 for input and 2 for output
Descriptor_get_properties(s, i, k) ==
    [iface |-> "org.bluez.GattDescriptor1",
     Characteristic |-> Characteristic_path(s, i),
     UUID |-> "2908",
     Flags |-> {"read"},
     Value |-> IF characteristics[s][i] = "input_report" THEN <<1, 1>> ELSE <<1, 2>>]

\* The loops of GetManagedObjects, as the entries they assign, in order
RECURSIVE DescriptorEntries(_, _, _)
DescriptorEntries(s, i, k) ==
    IF k > Len(descriptors[characteristics[s][i]])
    THEN <<>>
    ELSE <<[key |-> Descriptor_path(s, i, k), val |-> Descriptor_get_properties(s, i, k)]>>
         \o DescriptorEntries(s, i, k + 1)

RECURSIVE CharacteristicEntries(_, _)
CharacteristicEntries(s, i) ==
    IF i > Len(characteristics[s])
    THEN <<>>
    ELSE <<[key |-> Characteristic_path(s, i), val |-> Characteristic_get_properties(s, i)]>>
         \o DescriptorEntries(s, i, 1)
         \o CharacteristicEntries(s, i + 1)

RECURSIVE CharacteristicEntriesNoDescriptors(_, _)
CharacteristicEntriesNoDescriptors(s, i) ==
    IF i > Len(characteristics[s])
    THEN <<>>
    ELSE <<[key |-> Characteristic_path(s, i), val |-> Characteristic_get_properties(s, i)]>>
         \o CharacteristicEntriesNoDescriptors(s, i + 1)

RECURSIVE ServiceEntries(_)
ServiceEntries(services) ==
    IF services = <<>>
    THEN <<>>
    ELSE <<[key |-> Service_path(Head(services)),
            val |-> Service_get_properties(Head(services))]>>
         \o CharacteristicEntries(Head(services), 1)
         \o ServiceEntries(Tail(services))

RECURSIVE ServiceEntriesNoDescriptors(_)
ServiceEntriesNoDescriptors(services) ==
    IF services = <<>>
    THEN <<>>
    ELSE <<[key |-> Service_path(Head(services)),
            val |-> Service_get_properties(Head(services))]>>
         \o CharacteristicEntriesNoDescriptors(Head(services), 1)
         \o ServiceEntriesNoDescriptors(Tail(services))

\* The dictionary the assignments response[key] = val build: every key
\* holds the value assigned to it last
DictOf(entries) ==
    [p \in {entries[i].key : i \in 1..Len(entries)} |->
        entries[CHOOSE i \in 1..Len(entries) :
                    /\ entries[i].key = p
                    /\ \A j \in (i + 1)..Len(entries) : entries[j].key # p].val]

Application_GetManagedObjects_no_descriptors ==
    /\ ~exited
    /\ mpc = "loop"
    /\ reply' = Ok("GetManagedObjects", "app", <<>>,
                   DictOf(ServiceEntriesNoDescriptors(app)))
    /\ UNCHANGED <<value, notifying, mode, suspended, led_mask, hostVars,
                   notifyVars, workerVars, gap, regVars, mainVars, advVars,
                   libVars>>

\* Application.GetManagedObjects, called by BlueZ during RegisterApplication
\* or by any peer of the bus once main_loop.run() dispatches
Application_GetManagedObjects ==
    /\ ~exited
    /\ mpc = "loop"
    /\ reply' = Ok("GetManagedObjects", "app", <<>>, DictOf(ServiceEntries(app)))
    /\ UNCHANGED <<value, notifying, mode, suspended, led_mask, hostVars,
                   notifyVars, workerVars, gap, regVars, mainVars, advVars,
                   libVars>>

\* ------------------------------------------------------------------ main
\* The services main() adds to the Application, in order
Services == <<"hid", "dis", "battery">>

\* main, lines 919-926: a service is built and added to the Application
main_add_service ==
    /\ mpc = "build"
    /\ Len(app) < Len(Services)
    /\ app' = Append(app, Services[Len(app) + 1])
    /\ mpc' = IF Len(app') = Len(Services) THEN "thread" ELSE "build"
    /\ UNCHANGED <<treeVars, hostVars, notifyVars, workerVars, gap, regVars,
                   exitStatus,
                   advVars, libVars>>

\* main, lines 928-935: the Advertisement is built, the worker thread is started
main_start_worker ==
    /\ mpc = "thread"
    /\ wpc = "unstarted"
    /\ wpc' = "top"
    /\ mpc' = "register"
    /\ local_name' = env_str("BT_DEVICE_NAME", DefaultDeviceName)
    /\ UNCHANGED <<treeVars, hostVars, notifyVars, queue, wRet, callVars,
                   fifoLog, emitted, gap, regVars, app, exitStatus,
                   environ, libVars>>

register_ble_stack_async_direct ==
    /\ mpc = "register"
    /\ pendingGatt' = pendingGatt + 1
    /\ gattCalls' = gattCalls + 1
    /\ mpc' = "run"
    /\ UNCHANGED <<treeVars, hostVars, notifyVars, workerVars, gap, attempt,
                   timers, pendingAdv, registered, exited, gattOks, advCalls,
                   advOks, errReplies, lastExc, app, exitStatus,
                   advVars, libVars>>

\* register_ble_stack_async, line 903: GLib.idle_add(do_register_gatt)
register_ble_stack_async ==
    /\ mpc = "register"
    /\ timers' = timers + 1
    /\ mpc' = "run"
    /\ UNCHANGED <<treeVars, hostVars, notifyVars, workerVars, gap, attempt,
                   pendingGatt, pendingAdv, registered, exited, gattCalls,
                   gattOks, advCalls, advOks, errReplies, lastExc, app,
                   exitStatus,
                   advVars, libVars>>

\* main, line 939: main_loop.run() starts dispatching
main_loop_run ==
    /\ mpc = "run"
    /\ mpc' = "loop"
    /\ UNCHANGED <<treeVars, hostVars, notifyVars, workerVars, gap, regVars,
                   app, exitStatus,
                   advVars, libVars>>

\* ------------------------------------- functions checked on their own
NoCall == [fn |-> "none", args |-> <<>>]
NoRet == [status |-> "none", val |-> "none"]
Call(fn, args) == [fn |-> fn, args |-> args]
Returned(v) == [status |-> "return", val |-> v]
Raised(e) == [status |-> "raise", val |-> e]

\* The call drawn by the initial state has not run yet
Pending(fn) == fnCall.fn = fn /\ fnRet.status = "none"

\* The call has run and returned
Done(fn) == fnCall.fn = fn /\ fnRet.status = "return"

\* build_kbd_report is applied to the arguments of the call
Apply_build_kbd_report ==
    /\ Pending("build_kbd_report")
    /\ fnRet' = Returned(build_kbd_report(fnCall.args[1], fnCall.args[2]))
    /\ UNCHANGED <<daemonVars, advVars, fnCall, helper, helperRuns, cfg,
                   configJson, backendFile, backendWritable>>

\* map_char is applied to the character of the call
Apply_map_char ==
    /\ Pending("map_char")
    /\ fnRet' = Returned(map_char(fnCall.args[1]))
    /\ UNCHANGED <<daemonVars, advVars, fnCall, helper, helperRuns, cfg,
                   configJson, backendFile, backendWritable>>

\* ------------------------------------------------------ BluetoothKeyboard
\* What helper_path names in the file system
HelperKinds == {"executable", "missing", "not_executable", "directory"}

\* subprocess.run([helper_path, ...], check=check): "ok" when it returns,
\* else the exception it raises.  execve fails with ENOENT for a missing
\* path and with EACCES for a file without the execute bit and for a
\* directory; rc is the exit status of the helper when it runs.
subprocess_run(check, rc) ==
    CASE helper = "missing" -> "FileNotFoundError"
      [] helper \in {"not_executable", "directory"} -> "PermissionError"
      [] OTHER -> IF check /\ rc # 0 THEN "CalledProcessError" ELSE "ok"

\* BluetoothKeyboard.is_available
BluetoothKeyboard_is_available ==
    /\ Pending("is_available")
    /\ helperRuns' = Append(helperRuns, <<"--help">>)
    /\ \E rc \in {0, 1} :
          LET out == subprocess_run(FALSE, rc)
          IN  fnRet' = IF out = "ok" THEN Returned(TRUE)
                       ELSE IF out = "FileNotFoundError" THEN Returned(FALSE)
                       ELSE Raised(out)
    /\ UNCHANGED <<daemonVars, advVars, fnCall, helper, cfg, configJson,
                   backendFile, backendWritable>>

\* BluetoothKeyboard.send_text(text)
BluetoothKeyboard_send_text ==
    /\ Pending("send_text")
    /\ helperRuns' = Append(helperRuns, <<fnCall.args[1]>>)
    /\ \E rc \in {0, 1} :
          LET out == subprocess_run(TRUE, rc)
          IN  fnRet' = IF out = "ok" THEN Returned(TRUE)
                       ELSE IF out \in {"FileNotFoundError", "CalledProcessError"}
                       THEN Returned(FALSE)
                       ELSE Raised(out)
    /\ UNCHANGED <<daemonVars, advVars, fnCall, helper, cfg, configJson,
                   backendFile, backendWritable>>

\* ---------------------------------------------------------- ConfigManager
\* No configuration is loaded; the file does not exist
NoCfg == <<>>
Absent == [absent |-> TRUE]

\* The values of KeyboardBackend the code accepts
Backends == {"uinput", "ble"}

\* AppConfig(): the defaults of the two fields modelled
AppConfig_default == [IrisPenFolder |-> "/mnt/irispen", KeyboardBackend |-> "uinput"]

\* AppConfig.from_dict: the fields of data over the defaults, KeyboardBackend
\* normalised
AppConfig_from_dict(data) ==
    LET base == [f \in DOMAIN AppConfig_default |->
                    IF f \in DOMAIN data THEN data[f] ELSE AppConfig_default[f]]
    IN  [base EXCEPT !["KeyboardBackend"] =
            IF base["KeyboardBackend"] \notin Backends
            THEN "uinput"
            ELSE base["KeyboardBackend"]]

\* AppConfig.to_dict
AppConfig_to_dict(c) == c

\* load_json: {} when the file does not exist
load_json(file) == IF file = Absent THEN <<>> ELSE file

\* A file of the backend: its text and whether a newline ends it
FileOf(text, nl) == [text |-> text, nl |-> nl]

\* read_backend_file: the stripped content if it is a backend, else None
None == "None"
read_backend_file ==
    IF backendFile # Absent /\ backendFile.text \in Backends
    THEN backendFile.text
    ELSE None

\* write_backend_file(backend): the file after the call; it is left alone
\* when backend is not valid or the write fails
write_backend_file(backend) ==
    IF backend \notin Backends THEN backendFile
    ELSE IF ~backendWritable THEN backendFile
    ELSE FileOf(backend, TRUE)

\* ConfigManager.get
ConfigManager_get_value(c) == AppConfig_from_dict(AppConfig_to_dict(c))

\* ConfigManager._sync_backend_on_init, on the configuration just loaded
ConfigManager_sync_backend_on_init(loaded) ==
    LET backend_from_file == read_backend_file
    IN  IF backend_from_file # None /\ backend_from_file # loaded["KeyboardBackend"]
        THEN /\ cfg' = [loaded EXCEPT !["KeyboardBackend"] = backend_from_file]
             /\ configJson' = AppConfig_to_dict(cfg')
             /\ backendFile' = backendFile
        ELSE IF backend_from_file = None
        THEN /\ cfg' = loaded
             /\ configJson' = configJson
             /\ backendFile' = write_backend_file(loaded["KeyboardBackend"])
        ELSE /\ cfg' = loaded
             /\ configJson' = configJson
             /\ backendFile' = backendFile

\* ConfigManager.__init__
ConfigManager_init ==
    /\ Pending("ConfigManager")
    /\ cfg = NoCfg
    /\ ConfigManager_sync_backend_on_init(AppConfig_from_dict(load_json(configJson)))
    /\ fnRet' = Returned("self")
    /\ UNCHANGED <<daemonVars, advVars, fnCall, helper, helperRuns, backendWritable>>

\* The keyword arguments of update(): fields of AppConfig and a key it lacks
UpdateValues ==
    [k \in {"IrisPenFolder", "KeyboardBackend", "Unknown"} |->
        CASE k = "IrisPenFolder"   -> {"/mnt/other"}
          [] k = "KeyboardBackend" -> {"uinput", "ble", "usb"}
          [] k = "Unknown"         -> {"x"}]

Kwargs ==
    UNION {{kw \in [K -> UNION {UpdateValues[k] : k \in DOMAIN UpdateValues}] :
                \A k \in K : kw[k] \in UpdateValues[k]} :
           K \in SUBSET DOMAIN UpdateValues}

\* The loop of update(): setattr for every key AppConfig has
SetAttrs(c, kwargs) ==
    [f \in DOMAIN c |-> IF f \in DOMAIN kwargs THEN kwargs[f] ELSE c[f]]

\* ConfigManager.update(**kwargs)
ConfigManager_update(kwargs) ==
    /\ cfg # NoCfg
    /\ fnRet.status # "none"
    /\ fnCall' = Call("update", <<kwargs>>)
    /\ LET old_backend == cfg["KeyboardBackend"]
           backend_changed == /\ "KeyboardBackend" \in DOMAIN kwargs
                              /\ kwargs["KeyboardBackend"] # old_backend
       IN  /\ cfg' = SetAttrs(cfg, kwargs)
           /\ configJson' = AppConfig_to_dict(cfg')
           /\ backendFile' = IF backend_changed
                             THEN write_backend_file(cfg'["KeyboardBackend"])
                             ELSE backendFile
    /\ fnRet' = Returned(ConfigManager_get_value(cfg'))
    /\ UNCHANGED <<daemonVars, advVars, helper, helperRuns, backendWritable>>

\* ConfigManager.get()
ConfigManager_get ==
    /\ cfg # NoCfg
    /\ fnRet.status # "none"
    /\ fnCall' = Call("get", <<>>)
    /\ fnRet' = Returned(ConfigManager_get_value(cfg))
    /\ UNCHANGED <<daemonVars, advVars, helper, helperRuns, cfg, configJson,
                   backendFile, backendWritable>>

\* ---------------------------------------------------------- specifications
\* The state after main() has built the tree, started the worker thread and
\* register_ble_stack_async has queued do_register_gatt as an idle source.
InitDaemon ==
    /\ value = InitValue
    /\ notifying = [c \in Chrcs |-> FALSE]
    /\ mode = 1
    /\ suspended = FALSE
    /\ led_mask = 0
    /\ reply = NoReply
    /\ hostCalls = 0
    /\ hostLog = <<>>
    /\ count = 0
    /\ event = FALSE
    /\ queue = <<>>
    /\ wpc = "top"
    /\ wRet = "top"
    /\ wPhase = "press"
    /\ wReport = build_kbd_report(0, 0)
    /\ wOrder = <<"input_report", "boot_input">>
    /\ wTry = 1
    /\ wResult = FALSE
    /\ kBase = 0
    /\ kHost = 0
    /\ fifoLog = <<>>
    /\ emitted = <<>>
    /\ gap = FALSE
    /\ attempt = 0
    /\ timers = 1
    /\ pendingGatt = 0
    /\ pendingAdv = 0
    /\ registered = FALSE
    /\ exited = FALSE
    /\ gattCalls = 0
    /\ gattOks = 0
    /\ advCalls = 0
    /\ advOks = 0
    /\ errReplies = 0
    /\ lastExc = NoExc
    /\ mpc = "loop"
    /\ app = Services
    /\ exitStatus = -1

\* The advertisement main() builds when BT_DEVICE_NAME is not set
AdvBuilt ==
    /\ environ = Unset
    /\ local_name = str_strip(DefaultDeviceName)

\* The files the classes checked on their own work on do not exist
NoFiles ==
    /\ helper = "executable"
    /\ helperRuns = <<>>
    /\ cfg = NoCfg
    /\ configJson = Absent
    /\ backendFile = Absent
    /\ backendWritable = TRUE

\* No call has been made into the functions and classes checked on their own
LibIdle ==
    /\ fnCall = NoCall
    /\ fnRet = NoRet
    /\ NoFiles

Init == InitDaemon /\ AdvBuilt /\ LibIdle

\* Host subscription calls on every characteristic of the tree
NextNotify ==
    \/ \E c \in Chrcs : LoggedStartNotify(c)
    \/ \E c \in Chrcs : LoggedStopNotify(c)

SpecNotify == Init /\ [][NextNotify]_vars

\* Host reads and writes on every characteristic of the tree
NextGatt ==
    \/ \E c \in Chrcs : ReadValue(c)
    \/ \E c \in Chrcs, v \in WritePayloads : WriteValue(c, v)

SpecGatt == Init /\ [][NextGatt]_vars

\* The registration handshake with BlueZ
NextReg ==
    \/ do_register_gatt
    \/ on_gatt_ok
    \/ \E exc \in DBusErrors : on_gatt_err(exc)
    \/ on_adv_ok
    \/ \E exc \in DBusErrors : on_adv_err(exc)

SpecReg == Init /\ [][NextReg]_vars

\* The reply BlueZ sends to an outstanding RegisterApplication call, and to an
\* outstanding RegisterAdvertisement call (reply_handler or error_handler of
\* lines 895-899 and 882-887)
GattReply == on_gatt_ok \/ \E exc \in DBusErrors : on_gatt_err(exc)
AdvReply == on_adv_ok \/ \E exc \in DBusErrors : on_adv_err(exc)

\* The registration with its scheduling: the running main loop dispatches the
\* idle source and every retry timer that is armed, and every outstanding
\* call gets a reply
SpecRegFair ==
    /\ Init
    /\ [][NextReg]_vars
    /\ WF_vars(do_register_gatt)
    /\ WF_vars(GattReply)
    /\ WF_vars(AdvReply)

\* The worker thread against the host's subscription and protocol-mode calls
NextWorker ==
    \/ fifo_worker_top
    \/ fifo_worker_open
    \/ \E line \in Lines : fifo_worker_line(line)
    \/ fifo_worker_eof
    \/ fifo_worker_after_line
    \/ fifo_worker_except
    \/ drain_queue
    \/ send_next_character
    \/ notify_key_report
    \/ notify_report_check
    \/ notify_report_emit
    \/ send_next_character_resume
    \/ \E c \in ReportChrcs : HostStartNotify(c)
    \/ \E c \in ReportChrcs : HostStopNotify(c)
    \/ \E v \in {<<0>>, <<1>>} : WriteProtocolMode(v)

SpecWorker == Init /\ [][NextWorker]_vars

\* main() from its entry, the adapter found: nothing is built, no thread
\* runs, no source is queued. The characteristics' fields hold the values
\* their constructors give them.
InitEntry ==
    /\ value = InitValue
    /\ notifying = [c \in Chrcs |-> FALSE]
    /\ mode = 1
    /\ suspended = FALSE
    /\ led_mask = 0
    /\ reply = NoReply
    /\ hostCalls = 0
    /\ hostLog = <<>>
    /\ count = 0
    /\ event = FALSE
    /\ queue = <<>>
    /\ wpc = "unstarted"
    /\ wRet = "top"
    /\ wPhase = "press"
    /\ wReport = build_kbd_report(0, 0)
    /\ wOrder = <<"input_report", "boot_input">>
    /\ wTry = 1
    /\ wResult = FALSE
    /\ kBase = 0
    /\ kHost = 0
    /\ fifoLog = <<>>
    /\ emitted = <<>>
    /\ gap = FALSE
    /\ attempt = 0
    /\ timers = 0
    /\ pendingGatt = 0
    /\ pendingAdv = 0
    /\ registered = FALSE
    /\ exited = FALSE
    /\ gattCalls = 0
    /\ gattOks = 0
    /\ advCalls = 0
    /\ advOks = 0
    /\ errReplies = 0
    /\ lastExc = NoExc
    /\ mpc = "build"
    /\ app = <<>>
    /\ exitStatus = -1

\* main() at its entry: the Advertisement is not built yet
InitMain ==
    /\ InitEntry
    /\ environ = Unset
    /\ local_name = <<>>
    /\ LibIdle

\* Startup followed by the registration handshake
NextMain ==
    \/ main_add_service
    \/ main_start_worker
    \/ register_ble_stack_async
    \/ main_loop_run
    \/ do_register_gatt
    \/ on_gatt_ok
    \/ \E exc \in DBusErrors : on_gatt_err(exc)
    \/ on_adv_ok
    \/ \E exc \in DBusErrors : on_adv_err(exc)

SpecMain == InitMain /\ [][NextMain]_vars

\* BlueZ answers with an error at most MaxErrReplies times
GattErrReply(exc) == errReplies < MaxErrReplies /\ on_gatt_err(exc)
AdvErrReply(exc) == errReplies < MaxErrReplies /\ on_adv_err(exc)

\* A connected host subscribes to Report-Input once the application is
\* registered
SubscribeReport == gattOks > 0 /\ HostStartNotify("input_report")

\* The writer sends the line "a"
WriteLineA == fifo_worker_line(<<"a", "\n">>)

\* The whole daemon: registration, the worker, a subscribing host, and
\* BlueZ releasing the advertisement
NextDaemon ==
    \/ do_register_gatt
    \/ on_gatt_ok
    \/ \E exc \in DBusErrors : GattErrReply(exc)
    \/ on_adv_ok
    \/ \E exc \in DBusErrors : AdvErrReply(exc)
    \/ Advertisement_Release
    \/ SubscribeReport
    \/ fifo_worker_top
    \/ fifo_worker_open
    \/ WriteLineA
    \/ fifo_worker_eof
    \/ fifo_worker_after_line
    \/ fifo_worker_except
    \/ drain_queue
    \/ send_next_character
    \/ notify_key_report
    \/ notify_report_check
    \/ notify_report_emit
    \/ send_next_character_resume

SpecDaemon == Init /\ [][NextDaemon]_vars


\* The report builder on every pair of bytes
Byte == 0..255

InitReport ==
    /\ InitDaemon
    /\ AdvBuilt
    /\ fnCall \in {Call("build_kbd_report", <<mods, keycode>>) : mods \in Byte, keycode \in Byte}
    /\ fnRet = NoRet
    /\ NoFiles

NextReport == Apply_build_kbd_report

SpecReport == InitReport /\ [][NextReport]_vars

\* The usage mapper on every character of Chars
InitMapChar ==
    /\ InitDaemon
    /\ AdvBuilt
    /\ fnCall \in {Call("map_char", <<ch>>) : ch \in Chars}
    /\ fnRet = NoRet
    /\ NoFiles

NextMapChar == Apply_map_char

SpecMapChar == InitMapChar /\ [][NextMapChar]_vars

\* The texts given to send_text: every string over two letters up to MaxTextLen
Texts == UNION {[1..n -> {"a", "b"}] : n \in 0..MaxTextLen}

\* One call of a BluetoothKeyboard method, for every kind of helper path
InitKeyboard ==
    /\ InitDaemon
    /\ AdvBuilt
    /\ fnCall \in {Call("send_text", <<text>>) : text \in Texts}
                    \cup {Call("is_available", <<>>)}
    /\ fnRet = NoRet
    /\ helper \in HelperKinds
    /\ helperRuns = <<>>
    /\ cfg = NoCfg
    /\ configJson = Absent
    /\ backendFile = Absent
    /\ backendWritable = TRUE

NextKeyboard ==
    \/ BluetoothKeyboard_is_available
    \/ BluetoothKeyboard_send_text

SpecKeyboard == InitKeyboard /\ [][NextKeyboard]_vars

\* config.json before the manager is constructed: missing, without the
\* backend, or with a backend, valid or not
ConfigFiles ==
    {Absent, [IrisPenFolder |-> "/mnt/other"]}
        \cup {[KeyboardBackend |-> b] : b \in {"uinput", "ble", "usb"}}

\* The backend file before the manager is constructed
BackendFiles ==
    {Absent, FileOf("uinput", TRUE), FileOf("ble", TRUE), FileOf("ble", FALSE),
     FileOf("usb", TRUE)}

\* A ConfigManager is constructed, then updated and read
InitConfig ==
    /\ InitDaemon
    /\ AdvBuilt
    /\ fnCall = Call("ConfigManager", <<>>)
    /\ fnRet = NoRet
    /\ helper = "executable"
    /\ helperRuns = <<>>
    /\ cfg = NoCfg
    /\ configJson \in ConfigFiles
    /\ backendFile \in BackendFiles
    /\ backendWritable \in BOOLEAN

NextConfig ==
    \/ ConfigManager_init
    \/ \E kwargs \in Kwargs : ConfigManager_update(kwargs)
    \/ ConfigManager_get

SpecConfig == InitConfig /\ [][NextConfig]_vars

\* The values of BT_DEVICE_NAME: nothing or an 11-character stem, followed
\* by up to MaxTailLen letters, blanks and comment signs
NameTails == UNION {[1..n -> {"k", " ", "#"}] : n \in 0..MaxTailLen}
NameStems == {<<>>, <<"I", "P", "R", " ", "K", "e", "y", "b", "o", "a", "r">>}
DeviceNames == {stem \o tail : stem \in NameStems, tail \in NameTails}

\* main() with every value of BT_DEVICE_NAME; the properties of the
\* advertisement are read once the loop runs
InitAdv ==
    /\ InitEntry
    /\ environ \in {Unset} \cup {Environ(name) : name \in DeviceNames}
    /\ local_name = <<>>
    /\ LibIdle

NextAdv ==
    \/ main_add_service
    \/ main_start_worker
    \/ register_ble_stack_async
    \/ main_loop_run
    \/ \E interface \in Interfaces : Advertisement_GetAll(interface)

SpecAdv == InitAdv /\ [][NextAdv]_vars

\* The host writes the LEDs once the loop runs
WriteLeds == mpc = "loop" /\ WriteValue("output_report", <<1>>)

\* Startup and the registration handshake, with the tree enumerated and
\* written at any time once the loop runs
NextObjects ==
    \/ main_add_service
    \/ main_start_worker
    \/ register_ble_stack_async
    \/ main_loop_run
    \/ do_register_gatt
    \/ on_gatt_ok
    \/ \E exc \in DBusErrors : GattErrReply(exc)
    \/ on_adv_ok
    \/ \E exc \in DBusErrors : AdvErrReply(exc)
    \/ Application_GetManagedObjects
    \/ WriteLeds

SpecObjects == InitMain /\ [][NextObjects]_vars

\* The steps the worker thread takes on its own; reading a line and the end
\* of the FIFO wait for the writer
WorkerStep ==
    \/ fifo_worker_top
    \/ fifo_worker_open
    \/ fifo_worker_after_line
    \/ fifo_worker_except
    \/ drain_queue
    \/ send_next_character
    \/ notify_key_report
    \/ notify_report_check
    \/ notify_report_emit
    \/ send_next_character_resume

\* The host subscribes to Report-Input, once, and never unsubscribes
Subscribe == ~notifying["input_report"] /\ HostStartNotify("input_report")

\* The worker thread against a host that subscribes, unsubscribes, sets the
\* protocol mode, and suspends and resumes through the HID Control Point
NextSuspend ==
    \/ WorkerStep
    \/ \E line \in Lines : fifo_worker_line(line)
    \/ fifo_worker_eof
    \/ \E c \in ReportChrcs : HostStartNotify(c)
    \/ \E c \in ReportChrcs : HostStopNotify(c)
    \/ \E v \in {<<0>>, <<1>>} : WriteProtocolMode(v)
    \/ \E v \in {<<0>>, <<1>>} : WriteControlPoint(v)

SpecSuspend == Init /\ [][NextSuspend]_vars

\* The worker, scheduled fairly, with a writer and a subscribing host
NextDrain ==
    \/ fifo_worker_top
    \/ fifo_worker_open
    \/ \E line \in Lines : fifo_worker_line(line)
    \/ fifo_worker_eof
    \/ fifo_worker_after_line
    \/ fifo_worker_except
    \/ drain_queue
    \/ send_next_character
    \/ notify_key_report
    \/ notify_report_check
    \/ notify_report_emit
    \/ send_next_character_resume
    \/ Subscribe

SpecDrain == Init /\ [][NextDrain]_vars /\ WF_vars(WorkerStep)


\* ------------------------------------------------------------------ claims
\* The StartNotify/StopNotify calls on the report-bearing characteristics
NotifyCalls == SelectSeq(hostLog, LAMBDA e : e.chrc \in ReportChrcs)

NumberOf(op, log) == Cardinality({i \in 1..Len(log) : log[i].op = op})

\* The counter after the calls of log: plus one per StartNotify, minus one
\* per StopNotify but never below 0
RECURSIVE RunningCount(_)
RunningCount(log) ==
    IF log = <<>> THEN 0
    ELSE LET before == RunningCount(SubSeq(log, 1, Len(log) - 1))
         IN IF log[Len(log)].op = "StartNotify" THEN before + 1
            ELSE Max0(0, before - 1)

\* C1 as stated: after any sequence of StartNotify/StopNotify calls on
\* Report-Input and Boot-Input the counter is max(0, #StartNotify - #StopNotify)
\* and is never negative.
C1_Original ==
    /\ count >= 0
    /\ count = Max0(0, NumberOf("StartNotify", NotifyCalls)
                        - NumberOf("StopNotify", NotifyCalls))

\* C1 amended: the counter is the running value of the calls, each
\* StartNotify adding 1 and each StopNotify subtracting 1 floored at 0 at that
\* call; it is never negative and never below #StartNotify - #StopNotify.
C1_RunningCount ==
    /\ count >= 0
    /\ count = RunningCount(NotifyCalls)
    /\ count >= NumberOf("StartNotify", NotifyCalls) - NumberOf("StopNotify", NotifyCalls)

\* A StopNotify at 0 was absorbed and a later StartNotify counted
C1_Witness ==
    /\ Len(NotifyCalls) = 2
    /\ NotifyCalls[1].op = "StopNotify"
    /\ NotifyCalls[2].op = "StartNotify"
    /\ count = 1

ReadCapable(c) ==
    flags[c] \cap {"read", "encrypt-read", "encrypt-authenticated-read", "secure-read"} # {}
WriteCapable(c) ==
    flags[c] \cap {"write", "write-without-response", "encrypt-write",
                   "encrypt-authenticated-write", "secure-write"} # {}

\* C7: a Protocol Mode write is accepted only with a one-byte payload 0x00 or
\* 0x01, and then sets the mode and the stored value; every other payload
\* fails with InvalidArgs and leaves the mode and the stored value unchanged.
C7_ProtocolModeWrite ==
    [][(reply'.op = "WriteValue" /\ reply'.chrc = "protocol_mode") =>
          LET v == reply'.arg
          IN IF Len(v) = 1 /\ v[1] \in {0, 1}
             THEN /\ reply'.status = "ok"
                  /\ mode' = v[1]
                  /\ value'["protocol_mode"] = <<v[1]>>
             ELSE /\ reply'.status = "InvalidArgs"
                  /\ mode' = mode
                  /\ value'["protocol_mode"] = value["protocol_mode"]]_vars

\* A one-byte write of 0x02 was rejected while the mode was Boot
C7_Witness ==
    /\ reply.op = "WriteValue"
    /\ reply.chrc = "protocol_mode"
    /\ reply.arg = <<2>>
    /\ reply.status = "InvalidArgs"
    /\ mode = 0
    /\ value["protocol_mode"] = <<0>>

\* C8: for every characteristic, ReadValue returns the stored bytes if and
\* only if its flags hold a read-capable flag; otherwise it fails with
\* NotPermitted.
C8_ReadValue ==
    reply.op = "ReadValue" =>
        IF ReadCapable(reply.chrc)
        THEN reply.status = "ok" /\ reply.ret = value[reply.chrc]
        ELSE reply.status = "NotPermitted" /\ reply.ret = <<>>

\* A read of the write-only Control Point was refused, after a write to it
C8_Witness ==
    /\ reply.op = "ReadValue"
    /\ reply.chrc = "control_point"
    /\ reply.status = "NotPermitted"
    /\ suspended

\* C9: a WriteValue call changes a characteristic's stored value only if it
\* is the characteristic written and has a write-capable flag; on a
\* characteristic without one the call fails with NotPermitted and no stored
\* value changes.
C9_WriteValue ==
    [][reply'.op = "WriteValue" =>
          /\ \A c \in Chrcs :
                value'[c] # value[c] => (c = reply'.chrc /\ WriteCapable(c))
          /\ ~WriteCapable(reply'.chrc) =>
                (reply'.status = "NotPermitted" /\ value' = value)]_vars

\* A write to Report-Input (no write flag) was refused after the Output
\* Report's stored value had been changed by a write
C9_Witness ==
    /\ reply.op = "WriteValue"
    /\ reply.chrc = "input_report"
    /\ reply.arg = <<255>>
    /\ reply.status = "NotPermitted"
    /\ value["input_report"] = InitValue["input_report"]
    /\ value["output_report"] = <<31>>

\* C4 as stated: while the attempt counter is below the maximum and only
\* retryable errors occur the controller is not terminal; after each retry
\* (a RegisterApplication call sent after an error) the attempt count is the
\* number of failures so far plus 1; at the maximum the process has exited.
C4_Original ==
    /\ (errReplies > 0 /\ retryable_dbus_error(lastExc) /\ attempt < MaxAttempts)
          => ~exited
    /\ (errReplies > 0 /\ pendingGatt > 0) => attempt = errReplies + 1
    /\ attempt = MaxAttempts => exited

\* C4 amended: the attempt counter equals the number of failures so far (it
\* starts at 0 and is incremented once per error reply); while it is below
\* the maximum and only retryable errors occurred the controller is not
\* terminal and exactly one retry timer or registration call is pending; when
\* it reaches the maximum the process has exited.
C4_RetryCount ==
    /\ attempt = errReplies
    /\ attempt <= MaxAttempts
    /\ (errReplies > 0 /\ retryable_dbus_error(lastExc) /\ attempt < MaxAttempts)
          => (~exited /\ (registered \/ timers + pendingGatt + pendingAdv = 1))
    /\ attempt = MaxAttempts => exited

\* The retry budget was used up by retryable errors only
C4_Witness ==
    /\ exited
    /\ attempt = MaxAttempts
    /\ retryable_dbus_error(lastExc)
    /\ gattCalls = MaxAttempts

\* C10: every RegisterAdvertisement call follows a success reply to
\* RegisterApplication of its own, and Registered is reached only by a
\* success reply to RegisterAdvertisement.
C10_AdvAfterGatt ==
    /\ advCalls <= gattOks
    /\ pendingAdv <= advCalls
    /\ (pendingAdv > 0 => gattOks > 0)
    /\ (registered => advOks > 0)
    /\ advOks <= advCalls

\* Registered was reached after an Advertisement error and a second
\* RegisterApplication success
C10_Witness ==
    /\ registered
    /\ advCalls = 2
    /\ gattOks = 2
    /\ errReplies = 1


\* The worker is back at its loop with nothing pending
WorkerDone == wpc \in {"top", "open", "read"} /\ queue = <<>>

RECURSIVE Concat(_)
Concat(ss) == IF ss = <<>> THEN <<>> ELSE Head(ss) \o Concat(Tail(ss))

\* The characters queued so far: every line read, without its newline
TextRead == Concat([i \in 1..Len(fifoLog) |-> rstrip_newline(fifoLog[i])])

\* Key-down then neutral report for every mappable character of text, in order
RECURSIVE ExpectedReports(_)
ExpectedReports(text) ==
    IF text = <<>> THEN <<>>
    ELSE LET m == map_char(Head(text))
         IN IF m[1] = 0 THEN ExpectedReports(Tail(text))
            ELSE << <<m[2], 0, m[1], 0, 0, 0, 0, 0>>, <<0, 0, 0, 0, 0, 0, 0, 0>> >>
                     \o ExpectedReports(Tail(text))

EmittedReports == [i \in 1..Len(emitted) |-> emitted[i].report]

\* C2 as stated: with the subscriber count > 0 all the time characters were
\* queued, the drained text has given exactly the key-down and the neutral
\* report of each mappable character, in order, and nothing for an unmapped one.
C2_Original ==
    (WorkerDone /\ fifoLog # <<>> /\ ~gap) => EmittedReports = ExpectedReports(TextRead)

C5_Dispatch ==
    wpc = "k_ret" =>
        /\ Len(emitted) - kBase = (IF wResult THEN 1 ELSE 0)
        /\ wResult => emitted[Len(emitted)].report = wReport
        /\ hostCalls = kHost =>
              LET r == notifying["input_report"]
                  b == notifying["boot_input"]
              IN /\ wResult = (r \/ b)
                 /\ wResult =>
                       emitted[Len(emitted)].chrc =
                          IF mode = 0
                          THEN (IF b THEN "boot_input" ELSE "input_report")
                          ELSE (IF r THEN "input_report" ELSE "boot_input")

\* In Boot mode with only Report-Input notifying the call fell back to it
C5_Witness ==
    /\ wpc = "k_ret"
    /\ wResult
    /\ hostCalls = kHost
    /\ mode = 0
    /\ ~notifying["boot_input"]
    /\ notifying["input_report"]
    /\ emitted[Len(emitted)].chrc = "input_report"

\* C6: in Report mode with the one subscriber on Report-Input, text "a" gives
\* exactly [0,0,4,0,0,0,0,0] then the neutral report on Report-Input; after a
\* Protocol Mode write of 0x00 and with Boot-Input subscribed, text "A" gives
\* exactly [2,0,4,0,0,0,0,0] then the neutral report on Boot-Input; nothing
\* is sent on the other characteristic.
C6_Scenarios ==
    /\ ( /\ hostCalls = 1
         /\ mode = 1
         /\ notifying["input_report"]
         /\ fifoLog = << <<"a", "\n">> >>
         /\ WorkerDone )
       => emitted = << [chrc |-> "input_report", report |-> <<0, 0, 4, 0, 0, 0, 0, 0>>],
                       [chrc |-> "input_report", report |-> <<0, 0, 0, 0, 0, 0, 0, 0>>] >>
    /\ ( /\ hostCalls = 2
         /\ mode = 0
         /\ notifying["boot_input"]
         /\ fifoLog = << <<"A", "\n">> >>
         /\ WorkerDone )
       => emitted = << [chrc |-> "boot_input", report |-> <<2, 0, 4, 0, 0, 0, 0, 0>>],
                       [chrc |-> "boot_input", report |-> <<0, 0, 0, 0, 0, 0, 0, 0>>] >>

\* The Boot scenario has run to its end
C6_Witness ==
    /\ hostCalls = 2
    /\ mode = 0
    /\ notifying["boot_input"]
    /\ fifoLog = << <<"A", "\n">> >>
    /\ WorkerDone
    /\ Len(emitted) = 2


\* The stage of the registration controller: 0 Unregistered, 1 RegisteringGatt
\* (a call awaiting its reply or its retry), 2 RegisteringAdvertisement,
\* 3 Registered, 4 Failed
RegStage ==
    IF exited THEN 4
    ELSE IF registered THEN 3
    ELSE IF pendingAdv > 0 THEN 2
    ELSE IF gattCalls > 0 THEN 1
    ELSE 0

\* C11 as stated: the registration stage only moves forward, and once a
\* RegisterApplication call has succeeded RegisterApplication is not called
\* again, also after a retryable Advertisement error.
C11_Original ==
    [][/\ RegStage' >= RegStage
       /\ gattOks > 0 => gattCalls' = gattCalls]_vars

\* The error name or the message holds one of the five tokens
HasRetryToken(exc) ==
    \E tok \in RetryTokens : Contains(tok, exc.name) \/ Contains(tok, exc.msg)

\* C12: an error reply leads to a retry (with budget left) exactly when its
\* name or message contains NotReady, InProgress, Failed, NoReply or
\* TimedOut; any other error reply ends the process in the same step, with
\* no retry timer added, whatever budget remains.
C12_Classification ==
    [][errReplies' = errReplies + 1 =>
          /\ attempt' < MaxAttempts =>
                ((timers' = timers + 1 /\ ~exited') <=> HasRetryToken(lastExc'))
          /\ ~HasRetryToken(lastExc') =>
                (exited' /\ exitStatus' = 1 /\ timers' = timers)]_vars

\* The first error reply, without a token, was fatal with 59 attempts left
C12_Witness ==
    /\ errReplies = 1
    /\ attempt = 1
    /\ ~HasRetryToken(lastExc)
    /\ exited
    /\ timers = 0


\* C13: the step that fails the registration ends the process with status 1
\* and makes no registration call, arms no retry timer and emits nothing;
\* after it no step of the event loop or of the worker thread happens: no
\* registration call, no timer, no reply handled, no key report.
C13_NoDegradedMode ==
    [][/\ (~exited /\ exited') =>
             /\ exitStatus' = 1
             /\ timers' = timers
             /\ gattCalls' = gattCalls
             /\ advCalls' = advCalls
             /\ emitted' = emitted
       /\ exited =>
             UNCHANGED <<timers, gattCalls, advCalls, emitted, queue, wpc, reply,
                         value, exitStatus, exited,
                   advVars, libVars>>]_vars

\* The process exited between a key-down report and its neutral report
C13_Witness ==
    /\ exited
    /\ exitStatus = 1
    /\ wpc = "k_entry"
    /\ wPhase = "release"
    /\ Len(emitted) = 1
    /\ queue = <<"a">>

\* C14 as stated: a Release call on the Advertisement ends the process, and
\* after it no host call is served, nothing is drained and nothing emitted.
C14_Original ==
    [][/\ reply'.op = "Release" => exited'
       /\ reply.op = "Release" =>
             (reply' = reply /\ queue' = queue /\ emitted' = emitted)]_vars

\* C15: a RegisterApplication call is made only while main_loop.run() is
\* dispatching and with the HID, Device Information and Battery services
\* added to the Application, the source that makes it being queued after
\* the tree is complete; none is made during construction.
C15_RegisterAfterLoop ==
    /\ gattCalls > 0 => (mpc = "loop" /\ app = <<"hid", "dis", "battery">>)
    /\ timers > 0 => (mpc \in {"run", "loop"} /\ app = <<"hid", "dis", "battery">>)
    /\ mpc \in {"build", "thread", "register"} =>
          (gattCalls = 0 /\ pendingGatt = 0 /\ timers = 0)

\* The first RegisterApplication call is awaiting its reply
C15_Witness ==
    /\ mpc = "loop"
    /\ gattCalls = 1
    /\ pendingGatt = 1
    /\ timers = 0
    /\ errReplies = 0


NeutralReport == <<0, 0, 0, 0, 0, 0, 0, 0>>

\* The key-down report of a mappable character
KeyDownOf(ch) == <<map_char(ch)[2], 0, map_char(ch)[1], 0, 0, 0, 0, 0>>

Mappable(ch) == map_char(ch)[1] # 0

\* C16 as stated: a key-down report is sent only on a characteristic that is
\* notifying at that moment; a mappable character leaves the queue only after
\* its key-down report was sent by a notify_key_report call that returned
\* true; after a failed call, or with the subscriber signal clear, the queue
\* keeps the character at its head.
C16_Original ==
    [][/\ (emitted' # emitted /\ wPhase = "press") =>
             notifying[emitted'[Len(emitted')].chrc]
       /\ (Len(queue') < Len(queue) /\ Mappable(Head(queue))) =>
             /\ queue' = Tail(queue)
             /\ kBase >= 1
             /\ emitted[kBase].report = KeyDownOf(Head(queue))
       /\ (wpc = "k_ret" /\ wPhase = "press" /\ ~wResult) => queue' = queue
       /\ (wpc = "send" /\ ~event) => queue' = queue]_vars

\* The characters removed from the queue so far
Consumed == SubSeq(TextRead, 1, Len(TextRead) - Len(queue))

\* The key-down report of the head character has been delivered, the
\* character is not removed yet
HeadInFlight ==
    /\ queue # <<>>
    /\ \/ wpc = "k_ret" /\ wPhase = "press" /\ wResult
       \/ wpc \in {"k_entry", "k_chk", "k_emit", "k_ret"} /\ wPhase = "release"

\* The key-down reports of the mappable characters of text, in order
RECURSIVE KeyImage(_)
KeyImage(text) ==
    IF text = <<>> THEN <<>>
    ELSE IF Mappable(Head(text)) THEN <<KeyDownOf(Head(text))>> \o KeyImage(Tail(text))
    ELSE KeyImage(Tail(text))

\* The key-down reports delivered so far
KeyDowns == SelectSeq(EmittedReports, LAMBDA r : r # NeutralReport)

\* C17: the queue is always the tail of the text read (the lines without
\* their newline, in reading order), what was consumed is its head, and the
\* delivered key-down reports are exactly the mapped image of the mappable
\* characters consumed, plus that of the head character while its neutral
\* report is still to come: in order, none twice, none out of place.
C17_Order ==
    /\ Len(queue) <= Len(TextRead)
    /\ queue = SubSeq(TextRead, Len(TextRead) - Len(queue) + 1, Len(TextRead))
    /\ KeyDowns = KeyImage(IF HeadInFlight THEN Consumed \o <<Head(queue)>>
                                           ELSE Consumed)

\* "Hi!" was consumed whole: H and i gave their key-down reports, ! none
C17_Witness ==
    /\ fifoLog = << <<"H", "i", "!", "\n">> >>
    /\ queue = <<>>
    /\ KeyDowns = << <<2, 0, 11, 0, 0, 0, 0, 0>>, <<0, 0, 12, 0, 0, 0, 0, 0>> >>

\* C18 as stated: key-down and neutral reports alternate, beginning with a
\* key-down, and once a character is consumed there are exactly 2
\* notifications for every mappable character consumed.
C18_Original ==
    /\ \A i \in 1..Len(emitted) :
          (emitted[i].report = NeutralReport) <=> (i % 2 = 0)
    /\ ~HeadInFlight => Len(emitted) = 2 * Len(KeyImage(Consumed))

\* C19 as stated: no step of the worker thread writes a characteristic's
\* value or emits a notification; both happen only in event-loop steps.
C19_Original ==
    [][(value' # value \/ emitted' # emitted) =>
          <<queue, wpc, wRet, callVars, fifoLog>>' = <<queue, wpc, wRet, callVars, fifoLog>>]_vars

\* C20: an error raised by open() or by reading the FIFO changes nothing but
\* the worker's position; handling it leaves the process running and the
\* queue as it was and takes the worker to the top of its loop, from where
\* it drains what is pending and, the queue empty, opens the FIFO again.
C20_FifoErrorContained ==
    [][/\ (wpc # "err" /\ wpc' = "err") =>
             (wpc \in {"open", "read"} /\ queue' = queue /\ ~exited')
       /\ wpc = "err" =>
             /\ queue' = queue
             /\ ~exited' /\ exitStatus' = -1
             /\ wpc' \in {"err", "top"}
       /\ (wpc = "top" /\ wpc' # "top") =>
             /\ queue' = queue
             /\ wpc' = IF queue = <<>> THEN "open" ELSE "drain"]_vars

\* Reading failed with the characters of "Hi!" pending
C20_Witness ==
    /\ wpc = "err"
    /\ queue = <<"H", "i", "!">>
    /\ fifoLog = << <<"H", "i", "!", "\n">> >>
    /\ ~exited

\* C21: for all mods and key in 0..255 the report builder returns exactly
\* the 8 bytes <<mods, 0, key, 0, 0, 0, 0, 0>>.
C21_ReportBuilder ==
    Done("build_kbd_report") =>
        /\ fnCall.args[1] \in Byte
        /\ fnCall.args[2] \in Byte
        /\ fnRet.val = <<fnCall.args[1], 0, fnCall.args[2], 0, 0, 0, 0, 0>>

\* The builder has returned for the largest modifier byte and key
C21_Witness ==
    /\ Done("build_kbd_report")
    /\ fnCall.args = <<255, 255>>
    /\ fnRet.val = <<255, 0, 255, 0, 0, 0, 0, 0>>

\* What the usage mapper returns for a character of its tables: 'a'..'z'
\* are 0x04..0x1D, 'A'..'Z' the same with shift, '1'..'9' are 0x1E..0x26,
\* '0' is 0x27, punctuation and accented characters their table entries
InTables(ch) ==
    ch \in Range(LowerLetters) \cup Range(UpperLetters) \cup Range(Digits)
           \cup DOMAIN PUNCT \cup DOMAIN SPECIAL_DK

TableEntry(ch) ==
    CASE ch \in Range(LowerLetters) -> <<3 + IndexOf(LowerLetters, ch), 0>>
      [] ch \in Range(UpperLetters) -> <<3 + IndexOf(UpperLetters, ch), 2>>
      [] ch = "0"                   -> <<39, 0>>
      [] ch \in Range(Digits) \ {"0"} -> <<28 + IndexOf(Digits, ch), 0>>
      [] ch \in DOMAIN PUNCT        -> PUNCT[ch]
      [] ch \in DOMAIN SPECIAL_DK   -> SPECIAL_DK[ch]

\* C22: the usage mapper maps the characters of its tables to their
\* entries (letters, shifted capitals, digits with '0' after '9',
\* punctuation, accented characters) and every other character to usage 0.
C22_Original ==
    Done("map_char") =>
        IF InTables(fnCall.args[1])
        THEN fnRet.val = TableEntry(fnCall.args[1])
        ELSE fnRet.val[1] = 0

\* The paths of the services, characteristics and descriptors main() builds
ObjectPaths ==
    {Service_path(s) : s \in Range(Services)}
        \cup UNION {{Characteristic_path(s, i) : i \in 1..Len(characteristics[s])} :
                    s \in Range(Services)}
        \cup UNION {UNION {{Descriptor_path(s, i, k) :
                               k \in 1..Len(descriptors[characteristics[s][i]])} :
                           i \in 1..Len(characteristics[s])} :
                    s \in Range(Services)}

\* The number of objects of the tree
NumObjects ==
    Len(Services) + Cardinality(Chrcs)
        + Cardinality({c \in Chrcs : descriptors[c] # <<>>})

\* The interface of the object at a path, by the depth of the path
InterfaceAt(path) ==
    CASE Len(path) = 2 -> "org.bluez.GattService1"
      [] Len(path) = 4 -> "org.bluez.GattCharacteristic1"
      [] Len(path) = 6 -> "org.bluez.GattDescriptor1"

\* C23: GetManagedObjects can be answered in every state once the tree is
\* built and the loop runs, also while a registration call is in flight; its
\* answer has one entry for every service, characteristic and descriptor
\* and nothing else, so the set of paths is the same in every answer.
C23_ManagedObjects ==
    /\ (mpc = "loop" /\ ~exited) => ENABLED Application_GetManagedObjects
    /\ reply.op = "GetManagedObjects" =>
          /\ reply.status = "ok"
          /\ DOMAIN reply.ret = ObjectPaths
          /\ Cardinality(DOMAIN reply.ret) = NumObjects
          /\ \A path \in DOMAIN reply.ret : reply.ret[path].iface = InterfaceAt(path)

\* The tree was enumerated while RegisterApplication was in flight and
\* after the host wrote a characteristic value
C23_Witness ==
    /\ reply.op = "GetManagedObjects"
    /\ pendingGatt > 0
    /\ value["output_report"] = <<1>>
    /\ reply.ret[Characteristic_path("hid", 6)].Value = <<1>>

\* The device name main() takes from the environment
ConfiguredName == env_str("BT_DEVICE_NAME", DefaultDeviceName)

\* C24: for every configured device name longer than 12 characters, the
\* LocalName the Advertisement exposes is a shortened form of it, not the
\* full name.
C24_Original ==
    (reply.op = "GetAll" /\ reply.status = "ok" /\ Len(ConfiguredName) > 12) =>
        /\ Len(reply.ret.LocalName) < Len(ConfiguredName)
        /\ reply.ret.LocalName = SubSeq(ConfiguredName, 1, Len(reply.ret.LocalName))

\* C25: send_text with an empty string returns True without invoking the
\* helper program: no subprocess.run call is made.
C25_Original ==
    (fnCall.fn = "send_text" /\ fnRet.status # "none" /\ fnCall.args[1] = <<>>) =>
        /\ fnRet.status = "return"
        /\ fnRet.val = TRUE
        /\ helperRuns = <<>>

\* C26: is_available returns True when the helper exists and is executable,
\* and returns False, as a value, when the path is missing, is a file that
\* is not executable, or is a directory.
C26_Original ==
    (fnCall.fn = "is_available" /\ fnRet.status # "none") =>
        /\ fnRet.status = "return"
        /\ fnRet.val = (helper = "executable")

\* The value of the backend file: its stripped content
BackendFileValue == IF backendFile = Absent THEN None ELSE backendFile.text

\* KeyboardBackend as get() returns it
GetBackend(c) == ConfigManager_get_value(c)["KeyboardBackend"]

\* C27: with the backend file writable, after the construction of the
\* manager and after every update() the value of the backend file equals
\* the KeyboardBackend get() returns; an update() that does not change
\* KeyboardBackend leaves the backend file unchanged.
C27_Original ==
    /\ []((cfg # NoCfg /\ backendWritable) => BackendFileValue = GetBackend(cfg))
    /\ [][\A kwargs \in Kwargs :
            (ConfigManager_update(kwargs) /\ GetBackend(cfg') = GetBackend(cfg))
                => backendFile' = backendFile]_vars

\* The number of characters of the longest line a writer sends
LongestLine ==
    CHOOSE k \in {Len(rstrip_newline(line)) : line \in Lines} :
        \A line \in Lines : Len(rstrip_newline(line)) <= k

\* A report-bearing characteristic is notifying and the count is positive
Subscribed == count > 0 /\ \E c \in ReportChrcs : notifying[c]

\* C28: whenever the queue is non-empty and the subscriber count is and
\* stays positive with a report-bearing characteristic notifying, the head
\* character is eventually consumed by the fairly scheduled worker, whether
\* or not a further line arrives or the writer closes the FIFO.
C28_Original ==
    \A n \in 0..(MaxLines * LongestLine) :
        []((Len(Consumed) = n /\ queue # <<>> /\ []Subscribed)
              => <>(Len(Consumed) > n))

\* C29: in every reachable state the subscriber count is positive, and the
\* wake event set, exactly when Report-Input or Boot-Input is notifying.
C29_Original ==
    /\ (count > 0) <=> (\E c \in ReportChrcs : notifying[c])
    /\ event <=> (\E c \in ReportChrcs : notifying[c])

\* C30: between the calls of acquire and release, whatever their order, the
\* wake event is set exactly when the subscriber count is positive.
C30_EventIffCount == event <=> (count > 0)

\* acquire, release and acquire have run, in that order: the count rose to
\* 1, fell to 0 and is 1 again
C30_Witness ==
    /\ Len(NotifyCalls) = 3
    /\ [i \in 1..3 |-> NotifyCalls[i].op] = <<"StartNotify", "StopNotify", "StartNotify">>
    /\ count = 1
    /\ event

\* C31: the registration terminates. Every call being answered and every
\* armed source being dispatched, the controller eventually is Registered or
\* has exited (Failed), and the error replies of both stages together never
\* number more than 60, the attempt counter never being reset.
C31_Terminates ==
    /\ <>(registered \/ exited)
    /\ [](errReplies <= MaxAttempts)
    /\ [][attempt' >= attempt]_vars

\* The budget of 60 was used up by the error replies of both stages
\* together: failed RegisterApplication and RegisterAdvertisement calls
C31_Witness ==
    /\ exited
    /\ errReplies = MaxAttempts
    /\ advCalls > 0
    /\ advOks = 0
    /\ (gattCalls - gattOks) + advCalls = MaxAttempts

\* C32: at most one registration call (RegisterApplication or
\* RegisterAdvertisement) is outstanding at any time and at most one source
\* (the idle source or a retry timer) is pending; once Registered is reached
\* no registration call is made any more.
C32_OneOutstanding ==
    /\ [](pendingGatt + pendingAdv <= 1)
    /\ [](timers <= 1)
    /\ [][registered => (gattCalls' = gattCalls /\ advCalls' = advCalls)]_vars
    /\ [](registered => (timers = 0 /\ pendingGatt = 0 /\ pendingAdv = 0))

\* Registered after two error replies, each followed by one retry: three
\* RegisterApplication calls, nothing outstanding any more
C32_Witness ==
    /\ registered
    /\ errReplies = 2
    /\ gattCalls = 3
    /\ timers + pendingGatt + pendingAdv = 0

\* C33: the protocol mode is 0x01 (Report) initially and always 0x00 (Boot)
\* or 0x01; it changes only by a Protocol Mode WriteValue call that is
\* accepted, to the byte written; the value a read of the Protocol Mode
\* characteristic returns is always the single byte [mode].
C33_ProtocolMode ==
    /\ mode = 1
    /\ [](mode \in {0, 1})
    /\ [](value["protocol_mode"] = <<mode>>)
    /\ []((reply.op = "ReadValue" /\ reply.chrc = "protocol_mode") =>
              (reply.status = "ok" /\ reply.ret = <<mode>>))
    /\ [][mode' # mode =>
              /\ reply'.op = "WriteValue"
              /\ reply'.chrc = "protocol_mode"
              /\ reply'.status = "ok"
              /\ reply'.arg = <<mode'>>]_vars

\* The host set Boot mode and then read the characteristic back
C33_Witness ==
    /\ reply.op = "ReadValue"
    /\ reply.chrc = "protocol_mode"
    /\ reply.ret = <<0>>
    /\ mode = 0

\* The bitwise and of two naturals
RECURSIVE BitAnd(_, _)
BitAnd(a, b) ==
    IF a = 0 \/ b = 0
    THEN 0
    ELSE (a % 2) * (b % 2) + 2 * BitAnd(a \div 2, b \div 2)

\* C37: the LED state of the Output Report is always within the 5 active
\* bits (0..31); a write of at least one byte is accepted and sets the LED
\* state, and the stored value, to its first byte masked with 0x1F; an empty
\* write fails with InvalidArgs and leaves the LED state and the stored value
\* unchanged; nothing else changes the LED state.
C37_LedMask ==
    /\ [](led_mask \in 0..31)
    /\ [](value["output_report"] = <<led_mask>>)
    /\ [][(reply'.op = "WriteValue" /\ reply'.chrc = "output_report") =>
              LET v == reply'.arg
              IN IF Len(v) >= 1
                 THEN /\ reply'.status = "ok"
                      /\ led_mask' = BitAnd(v[1], 31)
                      /\ value'["output_report"] = <<BitAnd(v[1], 31)>>
                 ELSE /\ reply'.status = "InvalidArgs"
                      /\ led_mask' = led_mask
                      /\ value'["output_report"] = value["output_report"]]_vars
    /\ [][led_mask' # led_mask =>
              /\ reply'.op = "WriteValue"
              /\ reply'.chrc = "output_report"
              /\ reply'.status = "ok"]_vars

\* An empty write was rejected after a write of 0xFF had lit all five LEDs
C37_Witness ==
    /\ reply.op = "WriteValue"
    /\ reply.chrc = "output_report"
    /\ reply.arg = <<>>
    /\ reply.status = "InvalidArgs"
    /\ led_mask = 31
    /\ value["output_report"] = <<31>>

NotifyCapable(c) ==
    flags[c] \cap {"notify", "indicate", "encrypt-notify", "encrypt-indicate"} # {}

\* C36: notifying is true only on a characteristic with a notify or indicate
\* flag: StartNotify on a characteristic without one fails with NotPermitted
\* and leaves notifying false; and only the report-bearing characteristics
\* touch the shared counter: StartNotify and StopNotify on any other
\* characteristic, Battery Level among them, leave the subscriber count and
\* the wake signal unchanged.
C36_NotifyCapability ==
    /\ [](\A c \in Chrcs : notifying[c] => NotifyCapable(c))
    /\ [][hostCalls' # hostCalls =>
              LET c == reply'.chrc
              IN /\ (reply'.op = "StartNotify" /\ ~NotifyCapable(c)) =>
                        /\ reply'.status = "NotPermitted"
                        /\ notifying' = notifying
                        /\ ~notifying'[c]
                 /\ (reply'.op = "StartNotify" /\ NotifyCapable(c)) =>
                        (reply'.status = "ok" /\ notifying'[c])
                 /\ c \notin ReportChrcs =>
                        (count' = count /\ event' = event)]_vars

\* Battery Level is subscribed with the subscriber count still 0, and a
\* StartNotify on the HID Information characteristic was refused
C36_Witness ==
    /\ notifying["battery_level"]
    /\ count = 0
    /\ ~event
    /\ reply.op = "StartNotify"
    /\ reply.chrc = "hid_info"
    /\ reply.status = "NotPermitted"
    /\ ~notifying["hid_info"]

\* C35: the subscriber count and the wake signal have a single writer. No
\* step of the worker thread (a line appended to the queue, the drain loop,
\* the dispatch of a report, the handling of a FIFO error) changes either;
\* they change only in a StartNotify or StopNotify call of the host on a
\* report-bearing characteristic.
C35_SingleWriter ==
    /\ [][workerVars' # workerVars => (count' = count /\ event' = event)]_vars
    /\ [][(count' # count \/ event' # event) =>
              /\ hostCalls' = hostCalls + 1
              /\ reply'.op \in {"StartNotify", "StopNotify"}
              /\ reply'.chrc \in ReportChrcs
              /\ workerVars' = workerVars]_vars

\* With one subscriber, the worker queued a line, drained it, emitted its
\* reports, met a FIFO error and came back to the top of its loop
C35_Witness ==
    /\ count = 1
    /\ event
    /\ hostCalls = 1
    /\ fifoLog # <<>>
    /\ queue = <<>>
    /\ emitted # <<>>
    /\ wpc = "err"

\* C34: the suspend state recorded by the HID Control Point never gates the
\* draining. Every step of the worker (the steps that move it, queue or pop
\* a character, or emit a report) has the outcome that the queue, the wake
\* signal, the notifying flags, the protocol mode and the mapping determine,
\* in the states where the host has suspended as in those where it has not;
\* so the reports emitted for the same queue contents, subscription calls and
\* protocol mode are the same in both.
C34_SuspendIgnored ==
    [][(wpc' # wpc \/ wTry' # wTry \/ queue' # queue \/ emitted' # emitted) =>
          /\ wpc \notin {"k_emit"} => emitted' = emitted
          /\ wpc \notin {"read", "send", "k_ret"} => queue' = queue
          /\ CASE wpc = "top" ->
                     /\ queue # <<>> => event
                     /\ wpc' = IF queue # <<>> THEN "drain" ELSE "open"
                [] wpc = "line" ->
                     wpc' = IF event THEN "drain" ELSE "read"
                [] wpc = "drain" ->
                     wpc' = IF queue = <<>> THEN wRet ELSE "send"
                [] wpc = "send" ->
                     <<wpc', queue'>> =
                         IF queue = <<>> \/ ~event
                         THEN <<wRet, queue>>
                         ELSE IF map_char(Head(queue))[1] = 0
                         THEN <<"drain", Tail(queue)>>
                         ELSE <<"k_entry", queue>>
                [] wpc = "k_entry" ->
                     /\ wpc' = "k_chk"
                     /\ wOrder' = IF mode = 0 THEN <<"boot_input", "input_report">>
                                              ELSE <<"input_report", "boot_input">>
                [] wpc = "k_chk" ->
                     IF notifying[wOrder[wTry]]
                     THEN wpc' = "k_emit"
                     ELSE IF wTry = 1
                     THEN wpc' = "k_chk" /\ wTry' = 2
                     ELSE wpc' = "k_ret" /\ ~wResult'
                [] wpc = "k_emit" ->
                     /\ emitted' = Append(emitted, [chrc |-> wOrder[wTry],
                                                    report |-> wReport])
                     /\ wpc' = "k_ret"
                     /\ wResult'
                [] wpc = "k_ret" ->
                     <<wpc', queue'>> =
                         IF wPhase = "release"
                         THEN <<"drain", Tail(queue)>>
                         ELSE IF wResult
                         THEN <<"k_entry", queue>>
                         ELSE <<wRet, queue>>
                [] wpc = "read" ->
                     \/ wpc' = "line" /\ \E line \in Lines :
                                             queue' = queue \o rstrip_newline(line)
                     \/ wpc' \in {"top", "err"} /\ queue' = queue
                [] wpc = "open" -> wpc' \in {"read", "err"}
                [] wpc = "err" -> wpc' = "top"]_vars

\* The host subscribed and then suspended; after that the worker dispatched
\* the key-down report of a character and it was emitted
C34_Witness ==
    /\ suspended
    /\ hostCalls = 2
    /\ kHost = 2
    /\ count = 1
    /\ wpc = "k_ret"
    /\ wPhase = "press"
    /\ wResult
    /\ Len(emitted) = 1

====
